---- MODULE Spec2Model ----
(***************************************************************************)
(* Layout / reorder engine of the widget grid (layoutUtils.ts, measure.ts) *)
(* and the reducer store that drives it (WidgetContext.tsx).               *)
(*                                                                         *)
(* Pixel quantities are integers: SCREEN_WIDTH is chosen so that           *)
(* COLUMN_WIDTH and ROW_HEIGHT = COLUMN_WIDTH * 1.1 are whole numbers.     *)
(* An optional field (gridRow, gridCol) is << >> when undefined and <<v>>  *)
(* when it holds v.  Object identity is kept by the flag `fresh`: it is    *)
(* TRUE for an object constructed by the last call and FALSE for an object *)
(* that call received and handed back.                                     *)
(***************************************************************************)
EXTENDS Integers, Sequences, FiniteSets, TLC

\* ------------------------------------------------------------------ bounds
MaxWidgets == 3
MaxLen == 3
MaxLong == 5
MaxDropRow == 2
MaxUpdateLen == 2

\* --------------------------------------------------------------- measure.ts
SCREEN_WIDTH == 245
MARGIN == 15
COLUMNS == 2
COLUMN_WIDTH == (SCREEN_WIDTH - MARGIN * (COLUMNS + 1)) \div COLUMNS
ROW_HEIGHT == (COLUMN_WIDTH * 11) \div 10
GRID_STEP_X == COLUMN_WIDTH + MARGIN
GRID_STEP_Y == ROW_HEIGHT + MARGIN

\* ------------------------------------------------------- JavaScript built-ins
undefined == << >>
Some(v) == <<v>>
\* a ?? b
Coalesce(a, b) == IF a = undefined THEN b ELSE a[1]
\* Math.round(n / d) for d > 0: the nearest integer, halves toward +Infinity
Round(n, d) == (2 * n + d) \div (2 * d)
MathMax(a, b) == IF a > b THEN a ELSE b
MathMin(a, b) == IF a < b THEN a ELSE b
\* the initial value of bestRow; every Uint16 horizon entry is below it
Infinity == 65536
\* a store into a Uint16Array element
ToUint16(n) == n % 65536

\* Array.prototype.findIndex on the id; 0 stands for -1 (indices are 1-based)
RECURSIVE findIndexFrom(_, _, _)
findIndexFrom(widgets, widgetId, i) ==
  IF i > Len(widgets) THEN 0
  ELSE IF widgets[i].id = widgetId THEN i
  ELSE findIndexFrom(widgets, widgetId, i + 1)

\* mutant: a missing id yields the last index
findIndexOrLast(widgets, widgetId) ==
  IF findIndexFrom(widgets, widgetId, 1) = 0 THEN Len(widgets)
  ELSE findIndexFrom(widgets, widgetId, 1)

findIndex(widgets, widgetId) == findIndexFrom(widgets, widgetId, 1)

\* mutant: splice(0, 1), which removes the first element
SpliceOutFirst(arr, i) == SubSeq(arr, 2, Len(arr))

\* arr.splice(i, 1)
SpliceOut(arr, i) == SubSeq(arr, 1, i - 1) \o SubSeq(arr, i + 1, Len(arr))
\* mutant: splice(low, 1, w), which replaces the element at low
SpliceInReplacing(arr, low, w) ==
  SubSeq(arr, 1, low) \o <<w>> \o SubSeq(arr, low + 2, Len(arr))

\* arr.splice(low, 0, w) with a 0-based low
SpliceIn(arr, low, w) == SubSeq(arr, 1, low) \o <<w>> \o SubSeq(arr, low + 1, Len(arr))

\* ------------------------------------------------------------ layoutUtils.ts
\* mutant: a dimension at the threshold already spans two cells
getGridSizeAtThreshold(width, height) ==
  [colSpan |-> IF width >= COLUMN_WIDTH + 20 THEN 2 ELSE 1,
   rowSpan |-> IF height >= ROW_HEIGHT + 20 THEN 2 ELSE 1]

getGridSizeFromDimensions(width, height) ==
  [colSpan |-> IF width > COLUMN_WIDTH + 20 THEN 2 ELSE 1,
   rowSpan |-> IF height > ROW_HEIGHT + 20 THEN 2 ELSE 1]

\* mutant: the width is not multiplied by the span
getDimensionsOneColumnWide(colSpan, rowSpan) ==
  [width |-> COLUMN_WIDTH + (colSpan - 1) * MARGIN,
   height |-> rowSpan * ROW_HEIGHT + (rowSpan - 1) * MARGIN]

getDimensionsFromGridSize(colSpan, rowSpan) ==
  [width |-> colSpan * COLUMN_WIDTH + (colSpan - 1) * MARGIN,
   height |-> rowSpan * ROW_HEIGHT + (rowSpan - 1) * MARGIN]

\* mutant: only the first column of the segment is read
SpanMaxHFirstColumn(horizon, c, colSpan, span, maxH) == horizon[c]

\* the inner loop: the maximum horizon in [c, c + colSpan)
RECURSIVE SpanMaxH(_, _, _, _, _)
SpanMaxH(horizon, c, colSpan, span, maxH) ==
  IF span < colSpan
  THEN SpanMaxH(horizon, c, colSpan, span + 1, MathMax(maxH, horizon[c + span]))
  ELSE maxH

\* mutant: the chosen column is off by one
BetterSegmentNextCol(maxH, c, best) ==
  IF maxH < best.row THEN [row |-> maxH, col |-> c + 1] ELSE best

\* the comparison that keeps or replaces the best segment
BetterSegment(maxH, c, best) ==
  IF maxH < best.row THEN [row |-> maxH, col |-> c] ELSE best

\* the outer loop over the starting columns c = 0 .. COLUMNS - colSpan
RECURSIVE FindBest(_, _, _, _)
FindBest(horizon, colSpan, c, best) ==
  IF c <= COLUMNS - colSpan
  THEN FindBest(horizon, colSpan, c + 1,
                BetterSegment(SpanMaxH(horizon, c, colSpan, 0, 0), c, best))
  ELSE best

\* mutant: only the first covered column is raised
CommitHorizonFirstColumn(horizon, best, colSpan, rowSpan) ==
  [c \in DOMAIN horizon |->
     IF c = best.col THEN ToUint16(best.row + rowSpan) ELSE horizon[c]]

\* commit placement: raise the horizon of the covered columns
CommitHorizon(horizon, best, colSpan, rowSpan) ==
  [c \in DOMAIN horizon |->
     IF c >= best.col /\ c < best.col + colSpan
     THEN ToUint16(best.row + rowSpan)
     ELSE horizon[c]]

\* mutant: the cached cell is not compared
LayoutMatchesIgnoringCell(widget, newX, newY, newW, newH, bestRow, bestCol) ==
  /\ widget.x = newX
  /\ widget.y = newY
  /\ widget.width = newW
  /\ widget.height = newH

\* the identity-preservation test of the map callback
LayoutMatches(widget, newX, newY, newW, newH, bestRow, bestCol) ==
  /\ widget.x = newX
  /\ widget.y = newY
  /\ widget.width = newW
  /\ widget.height = newH
  /\ widget.gridRow = Some(bestRow)
  /\ widget.gridCol = Some(bestCol)

\* mutant: the callback does not write the cell it chose
PlaceWidgetWithoutCell(widget, horizon) ==
  LET size == getGridSizeFromDimensions(widget.width, widget.height)
      best == FindBest(horizon, size.colSpan, 0, [row |-> Infinity, col |-> 0])
      dim  == getDimensionsFromGridSize(size.colSpan, size.rowSpan)
  IN [horizon |-> CommitHorizon(horizon, best, size.colSpan, size.rowSpan),
      widget |-> [widget EXCEPT !.x = MARGIN + best.col * GRID_STEP_X,
                                !.y = best.row * GRID_STEP_Y,
                                !.width = dim.width, !.height = dim.height,
                                !.fresh = TRUE]]

\* the map callback for one widget, given the horizon left by the earlier ones
PlaceWidget(widget, horizon) ==
  LET size == getGridSizeFromDimensions(widget.width, widget.height)
      best == FindBest(horizon, size.colSpan, 0, [row |-> Infinity, col |-> 0])
      dim  == getDimensionsFromGridSize(size.colSpan, size.rowSpan)
      newX == MARGIN + best.col * GRID_STEP_X
      newY == best.row * GRID_STEP_Y
  IN [horizon |-> CommitHorizon(horizon, best, size.colSpan, size.rowSpan),
      widget |->
        IF LayoutMatches(widget, newX, newY, dim.width, dim.height, best.row, best.col)
        THEN widget
        ELSE [widget EXCEPT !.x = newX, !.y = newY,
                            !.width = dim.width, !.height = dim.height,
                            !.gridRow = Some(best.row), !.gridCol = Some(best.col),
                            !.fresh = TRUE]]

RECURSIVE MapLayout(_, _, _, _)
MapLayout(widgets, i, horizon, acc) ==
  IF i > Len(widgets) THEN acc
  ELSE LET p == PlaceWidget(widgets[i], horizon)
       IN MapLayout(widgets, i + 1, p.horizon, Append(acc, p.widget))

\* mutant: the comparator orders by x first
CompareXY(a, b) == IF a.x = b.x THEN a.y - b.y ELSE a.x - b.x

\* mutant: the comparator orders by descending y
CompareYXDescending(a, b) == IF a.y = b.y THEN a.x - b.x ELSE b.y - a.y

\* the comparator handed to sort
CompareYX(a, b) == IF a.y = b.y THEN a.x - b.x ELSE a.y - b.y

\* Array.prototype.sort with that comparator (a stable sort)
RECURSIVE InsertSorted(_, _)
InsertSorted(sorted, w) ==
  IF Len(sorted) = 0 THEN <<w>>
  ELSE IF CompareYX(sorted[Len(sorted)], w) <= 0 THEN Append(sorted, w)
  ELSE Append(InsertSorted(SubSeq(sorted, 1, Len(sorted) - 1), w), sorted[Len(sorted)])

RECURSIVE SortYX(_, _, _)
SortYX(arr, i, acc) ==
  IF i > Len(arr) THEN acc ELSE SortYX(arr, i + 1, InsertSorted(acc, arr[i]))

recalculateLayout(widgets) ==
  IF Len(widgets) = 0 THEN << >>
  ELSE SortYX(MapLayout(widgets, 1, [c \in 0 .. COLUMNS - 1 |-> 0], << >>), 1, << >>)

\* the sort key of a widget of the list: cached cell, or the cell derived from x, y
WidgetSortKey(w) ==
  Coalesce(w.gridRow, Round(w.y, GRID_STEP_Y)) * COLUMNS
    + Coalesce(w.gridCol, Round(w.x - MARGIN, GRID_STEP_X))

\* mutant: the column of the drop point is not clamped
TargetSortKeyUnclamped(newX, newY) ==
  Round(newY, GRID_STEP_Y) * COLUMNS + Round(newX - MARGIN, GRID_STEP_X)

\* the sort key of the drop point
TargetSortKey(newX, newY) ==
  Round(newY, GRID_STEP_Y) * COLUMNS
    + MathMax(0, MathMin(Round(newX - MARGIN, GRID_STEP_X), COLUMNS - 1))

\* mutant: the comparison is strict in both directions
GoesRightStrict(wSortKey, targetSortKey, isDraggingDown) == wSortKey < targetSortKey

\* one comparison of the binary search: TRUE when low moves to mid + 1
GoesRight(wSortKey, targetSortKey, isDraggingDown) ==
  IF isDraggingDown THEN wSortKey <= targetSortKey ELSE wSortKey < targetSortKey

RECURSIVE BinarySearch(_, _, _, _, _)
BinarySearch(remainingWidgets, low, high, targetSortKey, isDraggingDown) ==
  IF low < high
  THEN LET mid == (low + high) \div 2
           w == remainingWidgets[mid + 1]
       IN IF GoesRight(WidgetSortKey(w), targetSortKey, isDraggingDown)
          THEN BinarySearch(remainingWidgets, mid + 1, high, targetSortKey, isDraggingDown)
          ELSE BinarySearch(remainingWidgets, low, mid, targetSortKey, isDraggingDown)
  ELSE low

\* the early exits of reorderWidgets: the input array itself is returned
ReorderReturnsInput(widgets, widgetId, newX, newY) ==
  LET widgetIndex == findIndex(widgets, widgetId)
  IN \/ widgetIndex = 0
     \/ TargetSortKey(newX, newY) = WidgetSortKey(widgets[widgetIndex])

\* reorderWidgets: `same` tells whether the result is the input array itself
reorderWidgets(widgets, widgetId, newX, newY) ==
  IF ReorderReturnsInput(widgets, widgetId, newX, newY)
  THEN [same |-> TRUE, widgets |-> widgets]
  ELSE LET widgetIndex == findIndex(widgets, widgetId)
           widget == widgets[widgetIndex]
           targetSortKey == TargetSortKey(newX, newY)
           remainingWidgets == SpliceOut(widgets, widgetIndex)
           isDraggingDown == targetSortKey > WidgetSortKey(widget)
           low == BinarySearch(remainingWidgets, 0, Len(remainingWidgets),
                               targetSortKey, isDraggingDown)
       IN [same |-> FALSE,
           widgets |-> recalculateLayout(SpliceIn(remainingWidgets, low, widget))]

\* mutant: the new widget is put in front of the others
appendWidgetInFront(widgets, widget) == recalculateLayout(<<widget>> \o widgets)

appendWidget(widgets, widget) == recalculateLayout(Append(widgets, widget))

\* mutant: the size is replaced in place and the layout is not recalculated
resizeWidgetInPlace(widgets, widgetId, newWidth, newHeight) ==
  [i \in 1 .. Len(widgets) |->
     IF widgets[i].id = widgetId
     THEN [widgets[i] EXCEPT !.width = newWidth, !.height = newHeight, !.fresh = TRUE]
     ELSE widgets[i]]

resizeWidgetInList(widgets, widgetId, newWidth, newHeight) ==
  recalculateLayout(
    [i \in 1 .. Len(widgets) |->
       IF widgets[i].id = widgetId
       THEN [widgets[i] EXCEPT !.width = newWidth, !.height = newHeight, !.fresh = TRUE]
       ELSE widgets[i]])

\* mutant: the scan starts at the front of the array
ScannedWidgetFromFront(widgets, i) == widgets[i + 1]

\* widgets[widgets.length - 1 - i], the i-th widget from the end
ScannedWidget(widgets, i) == widgets[Len(widgets) - i]

\* the loop over the last scanCount widgets
RECURSIVE ScanMaxY(_, _, _, _)
ScanMaxY(widgets, i, scanCount, maxY) ==
  IF i < scanCount
  THEN LET w == ScannedWidget(widgets, i)
       IN ScanMaxY(widgets, i + 1, scanCount,
                   IF w.y + w.height > maxY THEN w.y + w.height ELSE maxY)
  ELSE maxY

calculateTotalContentHeight(widgets) ==
  IF Len(widgets) = 0 THEN 0
  ELSE ScanMaxY(widgets, 0, MathMin(Len(widgets), COLUMNS + 2), 0) + MARGIN + 100

\* ------------------------------------------------------------ layoutUtils.js
\* the grid of the occupancy packer is the set of the cells marked occupied
isOccupied(grid, row, col, colSpan, rowSpan) ==
  \E r \in row .. row + rowSpan - 1, c \in col .. col + colSpan - 1 :
    <<r, c>> \in grid \/ c >= COLUMNS

markOccupied(grid, row, col, colSpan, rowSpan) ==
  grid \cup {<<r, c>> : r \in row .. row + rowSpan - 1, c \in col .. col + colSpan - 1}

\* the for loop over the columns of one row: the first column that fits, -1 if none
RECURSIVE FirstFreeCol(_, _, _, _, _)
FirstFreeCol(grid, row, c, colSpan, rowSpan) ==
  IF c < COLUMNS
  THEN IF c + colSpan <= COLUMNS /\ ~isOccupied(grid, row, c, colSpan, rowSpan)
       THEN c
       ELSE FirstFreeCol(grid, row, c + 1, colSpan, rowSpan)
  ELSE -1

\* the while (!placed) loop over the rows
RECURSIVE FirstFit(_, _, _, _)
FirstFit(grid, row, colSpan, rowSpan) ==
  LET c == FirstFreeCol(grid, row, 0, colSpan, rowSpan)
  IN IF c >= 0 THEN [row |-> row, col |-> c]
     ELSE FirstFit(grid, row + 1, colSpan, rowSpan)

\* the map callback of the occupancy packer: every widget is a new object
PlaceWidgetJs(widget, grid) ==
  LET size == getGridSizeFromDimensions(widget.width, widget.height)
      spot == FirstFit(grid, 0, size.colSpan, size.rowSpan)
      dim  == getDimensionsFromGridSize(size.colSpan, size.rowSpan)
  IN [grid |-> markOccupied(grid, spot.row, spot.col, size.colSpan, size.rowSpan),
      widget |-> [widget EXCEPT !.x = MARGIN + spot.col * (COLUMN_WIDTH + MARGIN),
                                !.y = spot.row * (ROW_HEIGHT + MARGIN),
                                !.width = dim.width, !.height = dim.height,
                                !.fresh = TRUE]]

RECURSIVE MapLayoutJs(_, _, _, _)
MapLayoutJs(widgets, i, grid, acc) ==
  IF i > Len(widgets) THEN acc
  ELSE LET p == PlaceWidgetJs(widgets[i], grid)
       IN MapLayoutJs(widgets, i + 1, p.grid, Append(acc, p.widget))

\* recalculateLayout of layoutUtils.js: first fit on an occupancy grid, no sort
recalculateLayoutJs(widgets) == MapLayoutJs(widgets, 1, {}, << >>)

\* the square of the distance the forEach callback compares (Math.sqrt is monotone)
Dist2(w, newX, newY) == (w.x - newX) * (w.x - newX) + (w.y - newY) * (w.y - newY)

\* the forEach that finds the widget closest to the drop point; closest is a
\* 1-based index, 0 while closestIndex is -1
RECURSIVE ClosestFrom(_, _, _, _, _, _)
ClosestFrom(widgets, widgetId, newX, newY, idx, closest) ==
  IF idx > Len(widgets) THEN closest
  ELSE IF widgets[idx].id = widgetId
  THEN ClosestFrom(widgets, widgetId, newX, newY, idx + 1, closest)
  ELSE IF closest = 0 \/ Dist2(widgets[idx], newX, newY) < Dist2(widgets[closest], newX, newY)
  THEN ClosestFrom(widgets, widgetId, newX, newY, idx + 1, idx)
  ELSE ClosestFrom(widgets, widgetId, newX, newY, idx + 1, closest)

\* reorderWidgets of layoutUtils.js: insert before or after the closest widget
reorderWidgetsJs(widgets, widgetId, newX, newY) ==
  LET widgetIndex == findIndex(widgets, widgetId)
  IN IF widgetIndex = 0 THEN [same |-> TRUE, widgets |-> widgets]
     ELSE LET widget == widgets[widgetIndex]
              closest == ClosestFrom(widgets, widgetId, newX, newY, 1, 0)
              newWidgets == SpliceOut(widgets, widgetIndex)
              shift == IF closest # 0 /\ widgetIndex < closest THEN 1 ELSE 0
              target == widgets[closest]
              before == \/ newY < target.y
                        \/ newY < target.y + target.height /\ newX < target.x
              \* 0-based insertion index
              insertAt == IF closest = 0 THEN Len(newWidgets)
                          ELSE IF before THEN MathMax(0, (closest - 1) - shift)
                          ELSE closest - shift
          IN [same |-> FALSE,
              widgets |-> recalculateLayoutJs(SpliceIn(newWidgets, insertAt, widget))]

appendWidgetJs(widgets, widget) == recalculateLayoutJs(Append(widgets, widget))

resizeWidgetInListJs(widgets, widgetId, newWidth, newHeight) ==
  recalculateLayoutJs(
    [i \in 1 .. Len(widgets) |->
       IF widgets[i].id = widgetId
       THEN [widgets[i] EXCEPT !.width = newWidth, !.height = newHeight, !.fresh = TRUE]
       ELSE widgets[i]])

\* the forEach of calculateTotalContentHeight of layoutUtils.js: a full scan
RECURSIVE ForEachMaxY(_, _, _)
ForEachMaxY(widgets, i, maxY) ==
  IF i > Len(widgets) THEN maxY
  ELSE LET bottom == widgets[i].y + widgets[i].height
       IN ForEachMaxY(widgets, i + 1, IF bottom > maxY THEN bottom ELSE maxY)

calculateTotalContentHeightJs(widgets) == ForEachMaxY(widgets, 1, 0) + MARGIN + 100

\* ------------------------------------------------------------------- state
VARIABLES
  widgets,        \* state.widgets: the array the last call returned
  focusedWidget,  \* state.focusedWidget: null or the focused widget
  isEditMode,     \* state.isEditMode
  prev,           \* the array the last call received
  last,           \* the last call, its kind and arguments; IDLE once it is rendered
  sameRef,        \* TRUE when the last call returned the very array it received
  nextId,         \* the next id addWidget hands out (Date.now() never repeats)
  contentHeight,  \* the height WidgetCanvas last gave its canvas
  loop,           \* the locals of the call in progress, when its loops are run step by step
  view            \* the shared values, props and pending callbacks of one DraggableWidget

vars ==
  <<widgets, focusedWidget, isEditMode, prev, last, sameRef, nextId, contentHeight, loop,
    view>>

null == << >>

\* the objects of an array as a call receives them: none of them is new
Received(ws) == [i \in DOMAIN ws |-> [ws[i] EXCEPT !.fresh = FALSE]]

Call(type, id, x, y, width, height) ==
  [type |-> type, id |-> id, x |-> x, y |-> y, width |-> width, height |-> height]

IDLE == Call("IDLE", 0, 0, 0, 0, 0)

\* no call is run step by step
NoLoop ==
  [pc |-> "idle", then |-> "idle", input |-> << >>, i |-> 0, c |-> 0,
   best |-> [row |-> 0, col |-> 0], horizon |-> [col \in 0 .. COLUMNS - 1 |-> 0],
   grid |-> {}, row |-> 0, out |-> << >>,
   rest |-> << >>, widget |-> << >>, key |-> 0, down |-> FALSE, low |-> 0, high |-> 0]

\* no DraggableWidget is mounted
NoView == [mounted |-> FALSE]

\* ------------------------------------------------------------ input domains
Ids == 1 .. MaxWidgets
DATA == {"img"}
\* Math.random() * 20 lies in [0, 20)
Offsets == {0, 19}
\* drop points: left of the grid, column 0, column 1 (73 rounds up), right of the grid
DropXs == {-58, MARGIN, 73, 260}
\* drop points: above the grid and on the rows 0 .. MaxDropRow
DropYs == {r * GRID_STEP_Y : r \in -1 .. MaxDropRow}
\* sizes a resize gesture ends with: at the span threshold and just above it
ResizeWidths == {COLUMN_WIDTH + 20, COLUMN_WIDTH + 21}
ResizeHeights == {ROW_HEIGHT + 20, ROW_HEIGHT + 21}

\* the widget addWidget builds
NewWidget(id, data, offset) ==
  [id |-> id, data |-> data, x |-> 20 + offset, y |-> 300 + offset,
   width |-> COLUMN_WIDTH, height |-> ROW_HEIGHT, zIndex |-> 100,
   gridRow |-> undefined, gridCol |-> undefined, fresh |-> TRUE]

\* ------------------------------------------------------------ store (reducer)
Init ==
  /\ widgets = << >>
  /\ focusedWidget = null
  /\ isEditMode = FALSE
  /\ prev = << >>
  /\ last = IDLE
  /\ sameRef = FALSE
  /\ nextId = 1
  /\ contentHeight = 0
  /\ loop = NoLoop
  /\ view = NoView

\* addWidget and the ADD_WIDGET case; the add sheet is reachable in edit mode only
ADD_WIDGET ==
  /\ last = IDLE
  /\ isEditMode
  /\ Len(widgets) < MaxWidgets
  /\ nextId <= MaxWidgets
  /\ \E data \in DATA, offset \in Offsets :
       widgets' = appendWidget(widgets, NewWidget(nextId, data, offset))
  /\ prev' = widgets
  /\ last' = Call("ADD_WIDGET", nextId, 0, 0, 0, 0)
  /\ sameRef' = FALSE
  /\ nextId' = nextId + 1
  /\ UNCHANGED <<view, loop, focusedWidget, isEditMode, contentHeight>>

\* mutant: the predicate of the filter is inverted
FilterOnly(ws, id) == SelectSeq(ws, LAMBDA w : w.id = id)

\* state.widgets.filter(w => w.id !== action.payload)
FilterOut(ws, id) == SelectSeq(ws, LAMBDA w : w.id # id)

\* the REMOVE_WIDGET case; sent by the remove badge (edit mode) or by the menu of
\* the focused widget
REMOVE_WIDGET ==
  /\ last = IDLE
  /\ \E id \in Ids :
       /\ isEditMode \/ focusedWidget = [id |-> id]
       /\ widgets' = recalculateLayout(FilterOut(widgets, id))
       /\ focusedWidget' =
            IF focusedWidget # null /\ focusedWidget.id = id THEN null ELSE focusedWidget
       /\ last' = Call("REMOVE_WIDGET", id, 0, 0, 0, 0)
  /\ prev' = widgets
  /\ sameRef' = FALSE
  /\ UNCHANGED <<view, loop, isEditMode, nextId, contentHeight>>

\* the REORDER_WIDGET case; the drag gesture is enabled in edit mode only, and the
\* dragged widget may have been removed before the drop
REORDER_WIDGET ==
  /\ last = IDLE
  /\ isEditMode
  /\ \E id \in Ids, x \in DropXs, y \in DropYs :
       LET r == reorderWidgets(widgets, id, x, y)
       IN /\ widgets' = r.widgets
          /\ sameRef' = r.same
          /\ last' = Call("REORDER_WIDGET", id, x, y, 0, 0)
  /\ prev' = widgets
  /\ UNCHANGED <<view, loop, focusedWidget, isEditMode, nextId, contentHeight>>

\* the RESIZE_WIDGET case; the resize gesture is enabled in edit mode only
RESIZE_WIDGET ==
  /\ last = IDLE
  /\ isEditMode
  /\ \E id \in Ids, width \in ResizeWidths, height \in ResizeHeights :
       /\ widgets' = resizeWidgetInList(widgets, id, width, height)
       /\ last' = Call("RESIZE_WIDGET", id, 0, 0, width, height)
  /\ prev' = widgets
  /\ sameRef' = FALSE
  /\ UNCHANGED <<view, loop, focusedWidget, isEditMode, nextId, contentHeight>>

\* state.widgets.map(w => w.id === action.payload ? { ...w, zIndex: 999 } : w)
BringToFrontMap(ws, id) ==
  [i \in 1 .. Len(ws) |->
     IF ws[i].id = id THEN [ws[i] EXCEPT !.zIndex = 999, !.fresh = TRUE] ELSE ws[i]]

\* the BRING_TO_FRONT case; sent when a drag or a resize starts
BRING_TO_FRONT ==
  /\ last = IDLE
  /\ isEditMode
  /\ \E id \in Ids :
       /\ widgets' = BringToFrontMap(widgets, id)
       /\ last' = Call("BRING_TO_FRONT", id, 0, 0, 0, 0)
  /\ prev' = widgets
  /\ sameRef' = FALSE
  /\ UNCHANGED <<view, loop, focusedWidget, isEditMode, nextId, contentHeight>>

\* the TOGGLE_EDIT_MODE case
TOGGLE_EDIT_MODE ==
  /\ last = IDLE
  /\ \E payload \in BOOLEAN :
       /\ isEditMode' = payload
       /\ last' = Call("TOGGLE_EDIT_MODE", 0, 0, 0, 0, 0)
  /\ focusedWidget' = null
  /\ prev' = widgets
  /\ sameRef' = TRUE
  /\ UNCHANGED <<view, loop, widgets, nextId, contentHeight>>

\* the SET_FOCUSED_WIDGET case; handleLongPress focuses a rendered widget outside
\* edit mode, the modal clears the focus
SET_FOCUSED_WIDGET ==
  /\ last = IDLE
  /\ \/ /\ ~isEditMode
        /\ \E i \in DOMAIN widgets :
             /\ focusedWidget' = [id |-> widgets[i].id]
             /\ last' = Call("SET_FOCUSED_WIDGET", widgets[i].id, 0, 0, 0, 0)
     \/ /\ focusedWidget # null
        /\ focusedWidget' = null
        /\ last' = Call("SET_FOCUSED_WIDGET", 0, 0, 0, 0, 0)
  /\ prev' = widgets
  /\ sameRef' = TRUE
  /\ UNCHANGED <<view, loop, widgets, isEditMode, nextId, contentHeight>>

\* the provider renders the state the reducer returned: its objects are the ones
\* the next call receives, and WidgetCanvas computes the height of its canvas
Render ==
  /\ last # IDLE
  /\ widgets' = Received(widgets)
  /\ prev' = << >>
  /\ last' = IDLE
  /\ sameRef' = FALSE
  /\ contentHeight' = calculateTotalContentHeight(widgets)
  /\ UNCHANGED <<view, loop, focusedWidget, isEditMode, nextId>>

Next ==
  \/ ADD_WIDGET
  \/ REMOVE_WIDGET
  \/ REORDER_WIDGET
  \/ RESIZE_WIDGET
  \/ BRING_TO_FRONT
  \/ TOGGLE_EDIT_MODE
  \/ SET_FOCUSED_WIDGET
  \/ Render

Spec == Init /\ [][Next]_vars

\* ------------------------------- store with the UPDATE_WIDGET case as well
\* payloads of UPDATE_WIDGET, a Partial<Widget>: a position or a size
NoFields ==
  [x |-> undefined, y |-> undefined, width |-> undefined, height |-> undefined]

UpdatePayloads ==
  {[NoFields EXCEPT !.x = Some(MARGIN + GRID_STEP_X), !.y = Some(GRID_STEP_Y)],
   [NoFields EXCEPT !.x = Some(MARGIN), !.y = Some(0)],
   [NoFields EXCEPT !.width = Some(2 * COLUMN_WIDTH + MARGIN)]}

\* { ...w, ...action.payload }
Merge(w, payload) ==
  [w EXCEPT !.x = Coalesce(payload.x, w.x), !.y = Coalesce(payload.y, w.y),
            !.width = Coalesce(payload.width, w.width),
            !.height = Coalesce(payload.height, w.height),
            !.fresh = TRUE]

\* the UPDATE_WIDGET case: the payload is merged into the widget with the id, and
\* the layout is not recalculated; no component sends it, so nothing of the UI
\* guards it (the length of the list is capped to keep the state space finite)
UPDATE_WIDGET ==
  /\ last = IDLE
  /\ Len(widgets) <= MaxUpdateLen
  /\ \E id \in Ids, payload \in UpdatePayloads :
       /\ widgets' = [i \in 1 .. Len(widgets) |->
                        IF widgets[i].id = id THEN Merge(widgets[i], payload)
                        ELSE widgets[i]]
       /\ last' = Call("UPDATE_WIDGET", id, Coalesce(payload.x, 0), Coalesce(payload.y, 0),
                       Coalesce(payload.width, 0), Coalesce(payload.height, 0))
  /\ prev' = widgets
  /\ sameRef' = FALSE
  /\ UNCHANGED <<view, loop, focusedWidget, isEditMode, nextId, contentHeight>>

NextUpdate == Next \/ UPDATE_WIDGET

SpecUpdate == Init /\ [][NextUpdate]_vars

\* ------------------ store whose remove and focus cases any caller may send
\* mutant: the focus is kept whatever is removed
FocusKept(focused, id) == focused

\* state.focusedWidget?.id === action.payload ? null : state.focusedWidget
FocusAfterRemove(focused, id) ==
  IF focused # null /\ focused.id = id THEN null ELSE focused

\* the REMOVE_WIDGET case sent for any id in any state
REMOVE_ANY_WIDGET ==
  /\ last = IDLE
  /\ \E id \in Ids :
       /\ widgets' = recalculateLayout(FilterOut(widgets, id))
       /\ focusedWidget' = FocusAfterRemove(focusedWidget, id)
       /\ last' = Call("REMOVE_WIDGET", id, 0, 0, 0, 0)
  /\ prev' = widgets
  /\ sameRef' = FALSE
  /\ UNCHANGED <<view, loop, isEditMode, nextId, contentHeight>>

\* the SET_FOCUSED_WIDGET case sent in any state, for a widget of the list or null
SET_FOCUSED_PRESENT ==
  /\ last = IDLE
  /\ \/ \E i \in DOMAIN widgets :
          /\ focusedWidget' = [id |-> widgets[i].id]
          /\ last' = Call("SET_FOCUSED_WIDGET", widgets[i].id, 0, 0, 0, 0)
     \/ /\ focusedWidget' = null
        /\ last' = Call("SET_FOCUSED_WIDGET", 0, 0, 0, 0, 0)
  /\ prev' = widgets
  /\ sameRef' = TRUE
  /\ UNCHANGED <<view, loop, widgets, isEditMode, nextId, contentHeight>>

NextReducer ==
  \/ ADD_WIDGET
  \/ REMOVE_ANY_WIDGET
  \/ REORDER_WIDGET
  \/ RESIZE_WIDGET
  \/ BRING_TO_FRONT
  \/ TOGGLE_EDIT_MODE
  \/ SET_FOCUSED_PRESENT
  \/ Render

SpecReducer == Init /\ [][NextReducer]_vars

\* ------------------------------------- store (reducer of WidgetContext.js)
\* the widget addWidget of WidgetContext.js builds: COLUMN_WIDTH and ROW_HEIGHT are
\* imported from layoutUtils, which exports neither, so width and height are
\* undefined; 0 stands for it (undefined > n is false, as 0 > n is)
NewWidgetJs(id, data, offset) ==
  [id |-> id, data |-> data, x |-> 20 + offset, y |-> 300 + offset,
   width |-> 0, height |-> 0, zIndex |-> 100,
   gridRow |-> undefined, gridCol |-> undefined, fresh |-> TRUE]

ADD_WIDGET_JS ==
  /\ last = IDLE
  /\ isEditMode
  /\ Len(widgets) < MaxWidgets
  /\ nextId <= MaxWidgets
  /\ \E data \in DATA, offset \in Offsets :
       widgets' = appendWidgetJs(widgets, NewWidgetJs(nextId, data, offset))
  /\ prev' = widgets
  /\ last' = Call("ADD_WIDGET", nextId, 0, 0, 0, 0)
  /\ sameRef' = FALSE
  /\ nextId' = nextId + 1
  /\ UNCHANGED <<view, loop, focusedWidget, isEditMode, contentHeight>>

REMOVE_WIDGET_JS ==
  /\ last = IDLE
  /\ \E id \in Ids :
       /\ isEditMode \/ focusedWidget = [id |-> id]
       /\ widgets' = recalculateLayoutJs(FilterOut(widgets, id))
       /\ focusedWidget' =
            IF focusedWidget # null /\ focusedWidget.id = id THEN null ELSE focusedWidget
       /\ last' = Call("REMOVE_WIDGET", id, 0, 0, 0, 0)
  /\ prev' = widgets
  /\ sameRef' = FALSE
  /\ UNCHANGED <<view, loop, isEditMode, nextId, contentHeight>>

REORDER_WIDGET_JS ==
  /\ last = IDLE
  /\ isEditMode
  /\ \E id \in Ids, x \in DropXs, y \in DropYs :
       LET r == reorderWidgetsJs(widgets, id, x, y)
       IN /\ widgets' = r.widgets
          /\ sameRef' = r.same
          /\ last' = Call("REORDER_WIDGET", id, x, y, 0, 0)
  /\ prev' = widgets
  /\ UNCHANGED <<view, loop, focusedWidget, isEditMode, nextId, contentHeight>>

RESIZE_WIDGET_JS ==
  /\ last = IDLE
  /\ isEditMode
  /\ \E id \in Ids, width \in ResizeWidths, height \in ResizeHeights :
       /\ widgets' = resizeWidgetInListJs(widgets, id, width, height)
       /\ last' = Call("RESIZE_WIDGET", id, 0, 0, width, height)
  /\ prev' = widgets
  /\ sameRef' = FALSE
  /\ UNCHANGED <<view, loop, focusedWidget, isEditMode, nextId, contentHeight>>

\* state.widgets.map(w => w.id === action.payload ? { ...w, zIndex: 999 }
\*                                                : { ...w, zIndex: 1 })
BringToFrontMapJs(ws, id) ==
  [i \in 1 .. Len(ws) |->
     IF ws[i].id = id THEN [ws[i] EXCEPT !.zIndex = 999, !.fresh = TRUE]
     ELSE [ws[i] EXCEPT !.zIndex = 1, !.fresh = TRUE]]

BRING_TO_FRONT_JS ==
  /\ last = IDLE
  /\ isEditMode
  /\ \E id \in Ids :
       /\ widgets' = BringToFrontMapJs(widgets, id)
       /\ last' = Call("BRING_TO_FRONT", id, 0, 0, 0, 0)
  /\ prev' = widgets
  /\ sameRef' = FALSE
  /\ UNCHANGED <<view, loop, focusedWidget, isEditMode, nextId, contentHeight>>

RenderJs ==
  /\ last # IDLE
  /\ widgets' = Received(widgets)
  /\ prev' = << >>
  /\ last' = IDLE
  /\ sameRef' = FALSE
  /\ contentHeight' = calculateTotalContentHeightJs(widgets)
  /\ UNCHANGED <<view, loop, focusedWidget, isEditMode, nextId>>

\* TOGGLE_EDIT_MODE and SET_FOCUSED_WIDGET are the same in both reducers
NextJs ==
  \/ ADD_WIDGET_JS
  \/ REMOVE_WIDGET_JS
  \/ REORDER_WIDGET_JS
  \/ RESIZE_WIDGET_JS
  \/ BRING_TO_FRONT_JS
  \/ TOGGLE_EDIT_MODE
  \/ SET_FOCUSED_WIDGET
  \/ RenderJs

SpecJs == Init /\ [][NextJs]_vars

\* ------------------------------------------ recalculateLayout on any input
\* width, height of an input item: the four span combinations, one of them unsnapped
InputSizes ==
  {<<COLUMN_WIDTH, ROW_HEIGHT>>,
   <<2 * COLUMN_WIDTH + MARGIN, ROW_HEIGHT>>,
   <<COLUMN_WIDTH, 2 * ROW_HEIGHT + MARGIN>>,
   <<COLUMN_WIDTH + 21, ROW_HEIGHT + 21>>}

\* x, y, gridRow, gridCol of an input item: the placeholder of addWidget, a cached
\* cell, and a cache that disagrees with x, y
InputPlaces ==
  {<<20, 300, undefined, undefined>>,
   <<MARGIN, 0, Some(0), Some(0)>>,
   <<MARGIN + GRID_STEP_X, 0, Some(0), Some(1)>>,
   <<MARGIN, GRID_STEP_Y, Some(1), Some(0)>>,
   <<MARGIN, 0, Some(1), Some(1)>>}

InputWidget(id, size, place) ==
  [id |-> id, data |-> "img", x |-> place[1], y |-> place[2],
   width |-> size[1], height |-> size[2], zIndex |-> 100,
   gridRow |-> place[3], gridCol |-> place[4], fresh |-> FALSE]

\* the input sequences, with the ids 1, 2, ... in order: at most MaxLen items of any
\* size and place, or up to MaxLong items of any size that have no cell yet
IsInputSeq(ws) ==
  \/ \E n \in 0 .. MaxLen :
       \E sizes \in [1 .. n -> InputSizes], places \in [1 .. n -> InputPlaces] :
         ws = [i \in 1 .. n |-> InputWidget(i, sizes[i], places[i])]
  \/ \E n \in MaxLen + 1 .. MaxLong :
       \E sizes \in [1 .. n -> InputSizes] :
         ws = [i \in 1 .. n |-> InputWidget(i, sizes[i], <<20, 300, undefined, undefined>>)]

InitPack ==
  /\ IsInputSeq(widgets)
  /\ focusedWidget = null
  /\ isEditMode = FALSE
  /\ prev = << >>
  /\ last = IDLE
  /\ sameRef = FALSE
  /\ nextId = Len(widgets) + 1
  /\ contentHeight = 0
  /\ loop = NoLoop
  /\ view = NoView

\* recalculateLayout called on the input
Pack ==
  /\ last = IDLE
  /\ widgets' = recalculateLayout(widgets)
  /\ prev' = widgets
  /\ last' = Call("PACK", 0, 0, 0, 0, 0)
  /\ sameRef' = FALSE
  /\ UNCHANGED <<view, loop, focusedWidget, isEditMode, nextId, contentHeight>>

\* recalculateLayout called on its own output
Repack ==
  /\ last.type = "PACK"
  /\ widgets' = recalculateLayout(Received(widgets))
  /\ prev' = Received(widgets)
  /\ last' = Call("REPACK", 0, 0, 0, 0, 0)
  /\ sameRef' = FALSE
  /\ UNCHANGED <<view, loop, focusedWidget, isEditMode, nextId, contentHeight>>

\* calculateTotalContentHeight called on an output of recalculateLayout
Measure ==
  /\ last.type = "PACK"
  /\ contentHeight' = calculateTotalContentHeight(widgets)
  /\ prev' = Received(widgets)
  /\ last' = Call("MEASURE", 0, 0, 0, 0, 0)
  /\ UNCHANGED <<view, loop, widgets, focusedWidget, isEditMode, sameRef, nextId>>

\* the REMOVE_WIDGET case on an output of recalculateLayout, for the id of one of
\* its items or an id that none of them has
Remove ==
  /\ last.type = "PACK"
  /\ \E id \in 1 .. Len(widgets) + 1 :
       /\ widgets' = recalculateLayout(FilterOut(Received(widgets), id))
       /\ last' = Call("REMOVE_WIDGET", id, 0, 0, 0, 0)
  /\ prev' = Received(widgets)
  /\ sameRef' = FALSE
  /\ UNCHANGED <<view, loop, focusedWidget, isEditMode, nextId, contentHeight>>

NextPack == Pack \/ Repack \/ Measure \/ Remove

SpecPack == InitPack /\ [][NextPack]_vars

\* --------------- recalculateLayout, then reorderWidgets, append or resize
\* the input sequences: at most MaxLen new items of any size, two kinds of content
\* and two values of zIndex
EngineData(i) == IF i % 2 = 1 THEN "img" ELSE "pic"

IsEngineInput(ws) ==
  \E n \in 0 .. MaxLen :
    \E sizes \in [1 .. n -> InputSizes], zs \in [1 .. n -> {100, 999}] :
      ws = [i \in 1 .. n |->
              [InputWidget(i, sizes[i], <<20, 300, undefined, undefined>>)
                 EXCEPT !.data = EngineData(i), !.zIndex = zs[i]]]

InitEngine ==
  /\ IsEngineInput(widgets)
  /\ focusedWidget = null
  /\ isEditMode = FALSE
  /\ prev = << >>
  /\ last = IDLE
  /\ sameRef = FALSE
  /\ nextId = Len(widgets) + 1
  /\ contentHeight = 0
  /\ loop = NoLoop
  /\ view = NoView

\* reorderWidgets called on an output of recalculateLayout
Reorder ==
  /\ last.type = "PACK"
  /\ \E id \in Ids, x \in DropXs, y \in DropYs :
       LET r == reorderWidgets(Received(widgets), id, x, y)
       IN /\ widgets' = r.widgets
          /\ sameRef' = r.same
          /\ last' = Call("REORDER_WIDGET", id, x, y, 0, 0)
  /\ prev' = Received(widgets)
  /\ UNCHANGED <<view, loop, focusedWidget, isEditMode, nextId, contentHeight>>

\* appendWidget called on an output of recalculateLayout with a widget of addWidget
AppendPacked ==
  /\ last.type = "PACK"
  /\ \E data \in DATA, offset \in Offsets :
       widgets' = appendWidget(Received(widgets), NewWidget(nextId, data, offset))
  /\ prev' = Received(widgets)
  /\ last' = Call("ADD_WIDGET", nextId, 0, 0, 0, 0)
  /\ sameRef' = FALSE
  /\ nextId' = nextId + 1
  /\ UNCHANGED <<view, loop, focusedWidget, isEditMode, contentHeight>>

\* resizeWidgetInList called on an output of recalculateLayout
ResizePacked ==
  /\ last.type = "PACK"
  /\ \E id \in Ids, width \in ResizeWidths, height \in ResizeHeights :
       /\ widgets' = resizeWidgetInList(Received(widgets), id, width, height)
       /\ last' = Call("RESIZE_WIDGET", id, 0, 0, width, height)
  /\ prev' = Received(widgets)
  /\ sameRef' = FALSE
  /\ UNCHANGED <<view, loop, focusedWidget, isEditMode, nextId, contentHeight>>

NextEngine == Pack \/ Reorder \/ AppendPacked \/ ResizePacked

SpecEngine == InitEngine /\ [][NextEngine]_vars

\* --------------------------------------------- the loops, one step at a time
\* the input sequences: at most MaxLen new items of any size
IsLoopInput(ws) ==
  \E n \in 0 .. MaxLen :
    \E sizes \in [1 .. n -> InputSizes] :
      ws = [i \in 1 .. n |-> InputWidget(i, sizes[i], <<20, 300, undefined, undefined>>)]

InitLoop ==
  /\ IsLoopInput(widgets)
  /\ focusedWidget = null
  /\ isEditMode = FALSE
  /\ prev = << >>
  /\ last = IDLE
  /\ sameRef = FALSE
  /\ nextId = Len(widgets) + 1
  /\ contentHeight = 0
  /\ loop = NoLoop
  /\ view = NoView

\* the locals of recalculateLayout when it is entered with an input; `then` is the
\* place the call returns to
EnterLayout(input, then) ==
  [NoLoop EXCEPT !.pc = IF Len(input) = 0 THEN "return" ELSE "map",
                 !.then = then, !.input = input, !.i = 1]

\* recalculateLayout is called on the input
CallLayout ==
  /\ loop.pc = "idle"
  /\ loop' = EnterLayout(widgets, "packed")
  /\ prev' = widgets
  /\ last' = Call("PACK", 0, 0, 0, 0, 0)
  /\ UNCHANGED <<view, widgets, focusedWidget, isEditMode, sameRef, nextId, contentHeight>>

\* widgets.map: the callback is entered for the next widget, or the map is over
MapStep ==
  /\ loop.pc = "map"
  /\ loop' = IF loop.i > Len(loop.input)
             THEN [loop EXCEPT !.pc = "sort"]
             ELSE [loop EXCEPT !.pc = "columns", !.c = 0,
                               !.best = [row |-> Infinity, col |-> 0]]
  /\ UNCHANGED <<view, widgets, focusedWidget, isEditMode, prev, last, sameRef, nextId,
                 contentHeight>>

\* one turn of the loop for (let c = 0; c <= COLUMNS - colSpan; c++)
ColumnStep ==
  /\ loop.pc = "columns"
  /\ LET w == loop.input[loop.i]
         size == getGridSizeFromDimensions(w.width, w.height)
     IN loop' = IF loop.c <= COLUMNS - size.colSpan
                THEN [loop EXCEPT
                        !.best = BetterSegment(
                                   SpanMaxH(loop.horizon, loop.c, size.colSpan, 0, 0),
                                   loop.c, loop.best),
                        !.c = loop.c + 1]
                ELSE [loop EXCEPT !.pc = "commit"]
  /\ UNCHANGED <<view, widgets, focusedWidget, isEditMode, prev, last, sameRef, nextId,
                 contentHeight>>

\* the widget the callback returns for the cell it chose
PlacedAt(widget, best) ==
  LET size == getGridSizeFromDimensions(widget.width, widget.height)
      dim  == getDimensionsFromGridSize(size.colSpan, size.rowSpan)
      newX == MARGIN + best.col * GRID_STEP_X
      newY == best.row * GRID_STEP_Y
  IN IF LayoutMatches(widget, newX, newY, dim.width, dim.height, best.row, best.col)
     THEN widget
     ELSE [widget EXCEPT !.x = newX, !.y = newY,
                         !.width = dim.width, !.height = dim.height,
                         !.gridRow = Some(best.row), !.gridCol = Some(best.col),
                         !.fresh = TRUE]

\* the horizon is raised and the callback returns
CommitStep ==
  /\ loop.pc = "commit"
  /\ LET w == loop.input[loop.i]
         size == getGridSizeFromDimensions(w.width, w.height)
     IN loop' = [loop EXCEPT
                   !.pc = "map",
                   !.horizon = CommitHorizon(loop.horizon, loop.best,
                                             size.colSpan, size.rowSpan),
                   !.out = Append(loop.out, PlacedAt(w, loop.best)),
                   !.i = loop.i + 1]
  /\ UNCHANGED <<view, widgets, focusedWidget, isEditMode, prev, last, sameRef, nextId,
                 contentHeight>>

\* layoutWidgets.sort, and the return of recalculateLayout (low is kept: it is the
\* index the search of the caller ended at)
SortStep ==
  /\ loop.pc = "sort"
  /\ widgets' = SortYX(loop.out, 1, << >>)
  /\ loop' = [NoLoop EXCEPT !.pc = loop.then, !.low = loop.low]
  /\ UNCHANGED <<view, focusedWidget, isEditMode, prev, last, sameRef, nextId, contentHeight>>

\* the early exit of recalculateLayout for an empty array
ReturnEmpty ==
  /\ loop.pc = "return"
  /\ widgets' = << >>
  /\ loop' = [NoLoop EXCEPT !.pc = loop.then]
  /\ UNCHANGED <<view, focusedWidget, isEditMode, prev, last, sameRef, nextId, contentHeight>>

\* reorderWidgets is called on the packed array: its early exits, or the removal
\* of the widget and the start of the binary search
CallReorder ==
  /\ loop.pc = "packed"
  /\ \E id \in Ids, x \in DropXs, y \in DropYs :
       /\ last' = Call("REORDER_WIDGET", id, x, y, 0, 0)
       /\ IF ReorderReturnsInput(widgets, id, x, y)
          THEN /\ loop' = [NoLoop EXCEPT !.pc = "done"]
               /\ sameRef' = TRUE
          ELSE LET widgetIndex == findIndex(widgets, id)
                   remainingWidgets == SpliceOut(Received(widgets), widgetIndex)
               IN /\ loop' = [NoLoop EXCEPT
                               !.pc = "search",
                               !.rest = remainingWidgets,
                               !.widget = <<Received(widgets)[widgetIndex]>>,
                               !.key = TargetSortKey(x, y),
                               !.down = TargetSortKey(x, y)
                                          > WidgetSortKey(widgets[widgetIndex]),
                               !.low = 0,
                               !.high = Len(remainingWidgets)]
                  /\ sameRef' = FALSE
  /\ prev' = Received(widgets)
  /\ widgets' = Received(widgets)
  /\ UNCHANGED <<view, focusedWidget, isEditMode, nextId, contentHeight>>

\* mutant: low = mid
NextLowAtMid(mid) == mid

\* low = mid + 1
NextLow(mid) == mid + 1

\* one turn of while (low < high), or its exit
SearchStep ==
  /\ loop.pc = "search"
  /\ loop' = IF loop.low < loop.high
             THEN LET mid == (loop.low + loop.high) \div 2
                      w == loop.rest[mid + 1]
                  IN IF GoesRight(WidgetSortKey(w), loop.key, loop.down)
                     THEN [loop EXCEPT !.low = NextLow(mid)]
                     ELSE [loop EXCEPT !.high = mid]
             ELSE [loop EXCEPT !.pc = "insert"]
  /\ UNCHANGED <<view, widgets, focusedWidget, isEditMode, prev, last, sameRef, nextId,
                 contentHeight>>

\* remainingWidgets.splice(low, 0, widget); return recalculateLayout(remainingWidgets)
InsertStep ==
  /\ loop.pc = "insert"
  /\ loop' = [EnterLayout(SpliceIn(loop.rest, loop.low, loop.widget[1]), "done")
                EXCEPT !.low = loop.low]
  /\ UNCHANGED <<view, widgets, focusedWidget, isEditMode, prev, last, sameRef, nextId,
                 contentHeight>>

\* recalculateLayout of layoutUtils.js is called on the input
CallLayoutJs ==
  /\ loop.pc = "idle"
  /\ loop' = [NoLoop EXCEPT !.pc = "jsmap", !.input = widgets, !.i = 1]
  /\ prev' = widgets
  /\ last' = Call("PACK_JS", 0, 0, 0, 0, 0)
  /\ UNCHANGED <<view, widgets, focusedWidget, isEditMode, sameRef, nextId, contentHeight>>

\* widgets.map of layoutUtils.js: the callback is entered, or the map returns
MapStepJs ==
  /\ loop.pc = "jsmap"
  /\ IF loop.i > Len(loop.input)
     THEN /\ widgets' = loop.out
          /\ loop' = [NoLoop EXCEPT !.pc = "done"]
     ELSE /\ loop' = [loop EXCEPT !.pc = "jswhile", !.row = 0]
          /\ UNCHANGED widgets
  /\ UNCHANGED <<view, focusedWidget, isEditMode, prev, last, sameRef, nextId, contentHeight>>

\* one turn of while (!placed): the widget is placed in this row, or row++
WhileStepJs ==
  /\ loop.pc = "jswhile"
  /\ LET w == loop.input[loop.i]
         size == getGridSizeFromDimensions(w.width, w.height)
         dim == getDimensionsFromGridSize(size.colSpan, size.rowSpan)
         c == FirstFreeCol(loop.grid, loop.row, 0, size.colSpan, size.rowSpan)
     IN loop' = IF c >= 0
                THEN [loop EXCEPT
                        !.pc = "jsmap",
                        !.grid = markOccupied(loop.grid, loop.row, c,
                                              size.colSpan, size.rowSpan),
                        !.out = Append(loop.out,
                                  [w EXCEPT !.x = MARGIN + c * (COLUMN_WIDTH + MARGIN),
                                            !.y = loop.row * (ROW_HEIGHT + MARGIN),
                                            !.width = dim.width, !.height = dim.height,
                                            !.fresh = TRUE]),
                        !.i = loop.i + 1]
                ELSE [loop EXCEPT !.row = loop.row + 1]
  /\ UNCHANGED <<view, widgets, focusedWidget, isEditMode, prev, last, sameRef, nextId,
                 contentHeight>>

NextLoop ==
  \/ CallLayout
  \/ MapStep
  \/ ColumnStep
  \/ CommitStep
  \/ SortStep
  \/ ReturnEmpty
  \/ CallReorder
  \/ SearchStep
  \/ InsertStep
  \/ CallLayoutJs
  \/ MapStepJs
  \/ WhileStepJs

\* the code is synchronous: a call that has a next step takes it
SpecLoop == InitLoop /\ [][NextLoop]_vars /\ WF_vars(NextLoop)

\* ------------------------------------------------------- notions of the claims
\* the last call was recalculateLayout itself
Packed == last.type \in {"PACK", "REPACK"}
\* the last call ended in recalculateLayout
Repacked ==
  \/ last.type \in {"PACK", "REPACK", "ADD_WIDGET", "REMOVE_WIDGET", "RESIZE_WIDGET"}
  \/ last.type = "REORDER_WIDGET" /\ ~sameRef

ColSpanOf(w) == IF w.width > COLUMN_WIDTH + 20 THEN 2 ELSE 1
RowSpanOf(w) == IF w.height > ROW_HEIGHT + 20 THEN 2 ELSE 1
\* the cells an item occupies: [gridRow, gridRow + rowSpan) x [gridCol, gridCol + colSpan)
CellsOf(w) ==
  {<<r, c>> : r \in w.gridRow[1] .. w.gridRow[1] + RowSpanOf(w) - 1,
              c \in w.gridCol[1] .. w.gridCol[1] + ColSpanOf(w) - 1}
HasCell(w) == w.gridRow # undefined /\ w.gridCol # undefined

IdsOf(ws) == [i \in DOMAIN ws |-> ws[i].id]
Has(ws, id) == \E i \in DOMAIN ws : ws[i].id = id
IndexOf(ws, id) == CHOOSE i \in DOMAIN ws : ws[i].id = id
ItemOf(ws, id) == ws[IndexOf(ws, id)]
\* the six layout fields of an item
Layout(w) == <<w.x, w.y, w.width, w.height, w.gridRow, w.gridCol>>
\* an item without its identity flag
Value(w) == [w EXCEPT !.fresh = FALSE]
Values(ws) == [i \in DOMAIN ws |-> Value(ws[i])]

\* the cell a drop point projects to, the column clamped into the grid
DropRow(y) == IF 2 * y >= 0 THEN (2 * y + GRID_STEP_Y) \div (2 * GRID_STEP_Y)
              ELSE -((-2 * y + GRID_STEP_Y - 1) \div (2 * GRID_STEP_Y))
DropCol(x) ==
  LET d == x - MARGIN
      c == IF d >= 0 THEN (2 * d + GRID_STEP_X) \div (2 * GRID_STEP_X)
           ELSE -((-2 * d + GRID_STEP_X - 1) \div (2 * GRID_STEP_X))
  IN IF c < 0 THEN 0 ELSE IF c > COLUMNS - 1 THEN COLUMNS - 1 ELSE c
TargetCell(x, y) == <<DropRow(y), DropCol(x)>>
CellKey(cell) == cell[1] * COLUMNS + cell[2]
\* the last call was a reorder of an item of the array
ReorderOfItem == last.type = "REORDER_WIDGET" /\ Has(prev, last.id)
DropCell == TargetCell(last.x, last.y)
Dragged == ItemOf(prev, last.id)

\* ----------------------------------------------------------------------- C1
\* C1: in every output of recalculateLayout, no two distinct items occupy a common
\* cell.
C1_NoOverlap ==
  Packed =>
    \A i, j \in DOMAIN widgets :
      i < j => HasCell(widgets[i]) /\ HasCell(widgets[j])
               /\ CellsOf(widgets[i]) \cap CellsOf(widgets[j]) = {}

\* a pack of three items, two of which came in claiming the same cell, with a
\* two-column item among them
C1_Witness ==
  /\ last.type = "PACK"
  /\ Len(widgets) = 3
  /\ \E i, j \in DOMAIN prev :
       i < j /\ prev[i].gridRow = prev[j].gridRow /\ prev[i].gridCol = prev[j].gridCol
             /\ prev[i].gridRow # undefined
  /\ \E i \in DOMAIN widgets : ColSpanOf(widgets[i]) = 2
  /\ \E i \in DOMAIN widgets : RowSpanOf(widgets[i]) = 2

\* ----------------------------------------------------------------------- C2
\* C2: in every output of recalculateLayout, every item lies within the columns:
\* 0 <= gridCol and gridCol + colSpan <= COLUMNS.
C2_Bounds ==
  Packed =>
    \A i \in DOMAIN widgets :
      /\ HasCell(widgets[i])
      /\ 0 <= widgets[i].gridCol[1]
      /\ widgets[i].gridCol[1] + ColSpanOf(widgets[i]) <= COLUMNS

\* a two-column item packed after a one-column item that left the horizon uneven
C2_Witness ==
  /\ last.type = "PACK"
  /\ \E i, j \in DOMAIN widgets :
       /\ i < j
       /\ ColSpanOf(widgets[i]) = 1 /\ widgets[i].gridCol = Some(0)
       /\ ColSpanOf(widgets[j]) = 2 /\ widgets[j].gridCol = Some(0)
       /\ widgets[j].gridRow[1] = widgets[i].gridRow[1] + RowSpanOf(widgets[i])

\* ----------------------------------------------------------------------- C3
\* C3: the array returned by an operation that repacks is sorted by ascending y,
\* and by ascending x among equal y.
C3_Sorted ==
  Repacked =>
    \A i \in 1 .. Len(widgets) - 1 :
      \/ widgets[i].y < widgets[i + 1].y
      \/ widgets[i].y = widgets[i + 1].y /\ widgets[i].x <= widgets[i + 1].x

\* a reorder that repacked three items, two of them sharing a row
C3_Witness ==
  /\ last.type = "REORDER_WIDGET" /\ ~sameRef
  /\ Len(widgets) = 3
  /\ IdsOf(widgets) # IdsOf(prev)
  /\ \E i \in 1 .. Len(widgets) - 1 : widgets[i].y = widgets[i + 1].y
  /\ \E i \in 1 .. Len(widgets) - 1 : widgets[i].y < widgets[i + 1].y

\* ----------------------------------------------------------------------- C4
\* C4: recalculateLayout applied to its own output returns the same items in the
\* same order, with the same x, y, width, height, gridRow and gridCol.
C4_Idempotent == last.type = "REPACK" => Values(widgets) = Values(prev)

\* a second pack of three items on two rows or more, one of them two columns wide
C4_Witness ==
  /\ last.type = "REPACK"
  /\ Len(widgets) = 3
  /\ \E i \in DOMAIN widgets : ColSpanOf(widgets[i]) = 2
  /\ \E i \in DOMAIN widgets : widgets[i].gridRow[1] >= 2

\* ----------------------------------------------------------------------- C5
\* the layout recalculateLayout computes for the input, whatever the input caches
Computed ==
  recalculateLayout([i \in DOMAIN prev |->
                       [prev[i] EXCEPT !.x = -1, !.y = -1,
                                       !.gridRow = undefined, !.gridCol = undefined]])

\* C5: an item whose six computed layout fields all equal its current ones is
\* returned as the same object; any other item is replaced by a new object that
\* carries the computed fields.
C5_Identity ==
  Packed =>
    /\ Len(widgets) = Len(prev)
    /\ LET computed == Computed IN \A j \in DOMAIN widgets :
         LET c == computed[j]
             v == ItemOf(prev, c.id)
         IN IF Layout(v) = Layout(c)
            THEN widgets[j] = v
            ELSE widgets[j].fresh /\ Value(widgets[j]) = [Value(v) EXCEPT
                   !.x = c.x, !.y = c.y, !.width = c.width, !.height = c.height,
                   !.gridRow = c.gridRow, !.gridCol = c.gridCol]

\* a pack that hands one item back and replaces another whose x, y, width and
\* height were right and whose cached cell alone was stale
C5_Witness ==
  /\ last.type = "PACK"
  /\ \E i \in DOMAIN widgets : ~widgets[i].fresh
  /\ \E i \in DOMAIN widgets :
       LET v == ItemOf(prev, widgets[i].id)
       IN /\ widgets[i].fresh
          /\ <<v.x, v.y, v.width, v.height>> =
               <<widgets[i].x, widgets[i].y, widgets[i].width, widgets[i].height>>
          /\ v.gridRow # undefined

\* ----------------------------------------------------------------------- C6
\* C6: a reorder whose drop point projects to the cell the dragged item is in
\* returns the array it received, the same reference with the same objects.
C6_NoOpReorder ==
  (ReorderOfItem /\ HasCell(Dragged)
     /\ DropCell = <<Dragged.gridRow[1], Dragged.gridCol[1]>>)
    => sameRef /\ widgets = prev

\* a drop right of the grid on the row of an item in the last column, among others
C6_Witness ==
  /\ ReorderOfItem
  /\ Len(prev) >= 2
  /\ last.x > MARGIN + COLUMNS * GRID_STEP_X
  /\ DropCell = <<Dragged.gridRow[1], Dragged.gridCol[1]>>
  /\ sameRef

\* ----------------------------------------------------------------------- C7
\* three items, one per row, on the rows 0, 1 and 2
OnePerRow ==
  /\ Len(prev) = 3
  /\ \A k \in 1 .. 3 : prev[k].gridRow = Some(k - 1)

\* C7: with three items one per row, dropping the row-0 item in a cell of the
\* row-2 item gives [row1, row2, row0], and dropping the row-2 item in a cell of
\* the row-0 item gives [row2, row0, row1].
C7_DirectionSensitivity ==
  (ReorderOfItem /\ OnePerRow) =>
    /\ (last.id = prev[1].id /\ DropCell \in CellsOf(prev[3]))
         => IdsOf(widgets) = <<prev[2].id, prev[3].id, prev[1].id>>
    /\ (last.id = prev[3].id /\ DropCell \in CellsOf(prev[1]))
         => IdsOf(widgets) = <<prev[3].id, prev[1].id, prev[2].id>>

\* ----------------------------------------------------------------------- C8
\* the last call dropped an item of the array in a cell of another item W of it
DroppedOnto(W) ==
  /\ ReorderOfItem
  /\ W.id # last.id
  /\ DropCell \in CellsOf(W)
  /\ CellKey(DropCell) # CellKey(<<Dragged.gridRow[1], Dragged.gridCol[1]>>)

\* C8: an item dropped in any cell of another item W lands immediately after W
\* when the target key is greater than its origin key, immediately before W when
\* it is smaller.
C8_LandsNextToTarget ==
  \A k \in DOMAIN prev :
    DroppedOnto(prev[k]) =>
      IF CellKey(DropCell) > CellKey(<<Dragged.gridRow[1], Dragged.gridCol[1]>>)
      THEN IndexOf(widgets, last.id) = IndexOf(widgets, prev[k].id) + 1
      ELSE IndexOf(widgets, last.id) = IndexOf(widgets, prev[k].id) - 1

\* the same for a drop in the top-left cell of W, its cached cell
C8_LandsNextToTopLeft ==
  \A k \in DOMAIN prev :
    (DroppedOnto(prev[k]) /\ DropCell = <<prev[k].gridRow[1], prev[k].gridCol[1]>>) =>
      IF CellKey(DropCell) > CellKey(<<Dragged.gridRow[1], Dragged.gridCol[1]>>)
      THEN IndexOf(widgets, last.id) = IndexOf(widgets, prev[k].id) + 1
      ELSE IndexOf(widgets, last.id) = IndexOf(widgets, prev[k].id) - 1

\* ----------------------------------------------------------------------- C9
\* C9: after a reorder to a cell other than the origin cell, the dragged widget
\* is at the cell of the drop point.
C9_StaysAtDropCell ==
  (ReorderOfItem /\ DropCell # <<Dragged.gridRow[1], Dragged.gridCol[1]>>)
    => /\ ItemOf(widgets, last.id).gridRow = Some(DropCell[1])
       /\ ItemOf(widgets, last.id).gridCol = Some(DropCell[2])

\* ---------------------------------------------------------------------- C10
\* C10: a reorder of an id that no item of the array has returns the array it
\* received, the same reference with the same objects, and does not repack.
C10_MissingIdReorder ==
  (last.type = "REORDER_WIDGET" /\ ~Has(prev, last.id))
    => sameRef /\ widgets = prev /\ ~Repacked

\* a drop of an id that is gone, on a cell away from the two items that remain
C10_Witness ==
  /\ last.type = "REORDER_WIDGET"
  /\ ~Has(prev, last.id)
  /\ Len(prev) = 2
  /\ \A i \in DOMAIN prev : DropCell \notin CellsOf(prev[i])
  /\ sameRef

\* ---------------------------------------------------------------------- C11
\* the last call was a remove, a resize or a bring-to-front of an id that no item
\* of the array has
MissingIdCall ==
  /\ last.type \in {"REMOVE_WIDGET", "RESIZE_WIDGET", "BRING_TO_FRONT"}
  /\ ~Has(prev, last.id)

\* C11: a remove, a resize or a bring-to-front of an id that no item of the packed
\* array has leaves the array unchanged: same length, same order, and every item
\* keeps x, y, width, height, zIndex, gridRow and gridCol.
C11_MissingIdUnchanged == MissingIdCall => Values(widgets) = Values(prev)

\* the same for the remove and the resize alone
C11_MissingIdRemoveResize ==
  (MissingIdCall /\ last.type # "BRING_TO_FRONT") => Values(widgets) = Values(prev)

\* ---------------------------------------------------------------------- C12
\* the drop point of the last call lies outside the content: left of it or above
\* it, right of the last column, or below the last row
OutsideDrop ==
  \/ last.x < 0
  \/ last.y < 0
  \/ last.x > MARGIN + (COLUMNS - 1) * GRID_STEP_X + COLUMN_WIDTH
  \/ \A i \in DOMAIN prev : last.y >= prev[i].y + prev[i].height

\* the array holds the items of the array the call received, each of them once
SameItems ==
  /\ Len(widgets) = Len(prev)
  /\ \A i \in DOMAIN prev : \E j \in DOMAIN widgets : widgets[j].id = prev[i].id

\* no overlap, column bounds and sorted order
ValidLayout ==
  /\ \A i \in DOMAIN widgets :
       /\ HasCell(widgets[i])
       /\ 0 <= widgets[i].gridCol[1]
       /\ widgets[i].gridCol[1] + ColSpanOf(widgets[i]) <= COLUMNS
  /\ \A i, j \in DOMAIN widgets :
       i < j => CellsOf(widgets[i]) \cap CellsOf(widgets[j]) = {}
  /\ \A i \in 1 .. Len(widgets) - 1 :
       \/ widgets[i].y < widgets[i + 1].y
       \/ widgets[i].y = widgets[i + 1].y /\ widgets[i].x <= widgets[i + 1].x

\* the top-left corner of the cell nearest to the drop point: the column clamped
\* into [0, COLUMNS), the row clamped to at least 0
ClampedDropX == MARGIN + DropCol(last.x) * GRID_STEP_X
ClampedDropY == MathMax(0, DropRow(last.y)) * GRID_STEP_Y

\* C12: a reorder whose drop point lies outside the content is resolved as a drop
\* at the nearest valid cell (column clamped into [0, COLUMNS), row clamped to at
\* least 0), and the array returned holds the same items and has no overlap, is
\* within the columns and is sorted.
C12_ClampedDrop ==
  (ReorderOfItem /\ OutsideDrop) =>
    LET r == reorderWidgets(prev, last.id, ClampedDropX, ClampedDropY)
    IN /\ sameRef = r.same
       /\ Values(widgets) = Values(r.widgets)
       /\ SameItems
       /\ ValidLayout

\* the part about the column alone: the drop is resolved as a drop in the nearest
\* column of the same row
C12_ColumnClamped ==
  (ReorderOfItem /\ OutsideDrop) =>
    LET r == reorderWidgets(prev, last.id, ClampedDropX, last.y)
    IN sameRef = r.same /\ Values(widgets) = Values(r.widgets)

\* the part about the result
C12_ValidResult == (ReorderOfItem /\ OutsideDrop) => SameItems /\ ValidLayout

\* ---------------------------------------------------------------------- C13
Bottom(w) == w.y + w.height
\* the maximum of y + height over all the items of a non-empty array
MaxBottom(ws) ==
  CHOOSE m \in {Bottom(ws[i]) : i \in DOMAIN ws} : \A i \in DOMAIN ws : Bottom(ws[i]) <= m

CellOf(w) == <<w.gridRow[1], w.gridCol[1]>>
SingleSpan(w) == ColSpanOf(w) = 1 /\ RowSpanOf(w) = 1

\* the horizon of column c of a packed array: the first row below every item that
\* covers the column
HorizonOf(ws, c) ==
  LET ends == {ws[i].gridRow[1] + RowSpanOf(ws[i]) :
                 i \in {j \in DOMAIN ws : /\ ws[j].gridCol[1] <= c
                                          /\ c < ws[j].gridCol[1] + ColSpanOf(ws[j])}}
  IN IF ends = {} THEN 0 ELSE CHOOSE m \in ends : \A e \in ends : e <= m

\* C14: an append of a default-size item to a packed array places it in the
\* column with the lowest horizon, the leftmost of them on a tie, at the row of
\* that horizon, and every item the array had keeps its cell; appended to one
\* single-span item at cell (0,0), the new item is at cell (0,1).
C14_AppendFillsSlot ==
  last.type = "ADD_WIDGET" =>
    LET n == ItemOf(widgets, last.id)
    IN /\ Len(widgets) = Len(prev) + 1
       /\ \A i \in DOMAIN prev :
            Has(widgets, prev[i].id) /\ CellOf(ItemOf(widgets, prev[i].id)) = CellOf(prev[i])
       /\ SingleSpan(n)
       /\ n.gridRow[1] = HorizonOf(prev, n.gridCol[1])
       /\ \A c \in 0 .. COLUMNS - 1 :
            /\ HorizonOf(prev, c) >= n.gridRow[1]
            /\ c < n.gridCol[1] => HorizonOf(prev, c) > n.gridRow[1]
       /\ (Len(prev) = 1 /\ SingleSpan(prev[1]) /\ CellOf(prev[1]) = <<0, 0>>)
            => CellOf(n) = <<0, 1>>

\* an append to an array whose column 0 is filled one row further than column 1:
\* the new item goes to column 1, in the second row
C14_Witness ==
  /\ last.type = "ADD_WIDGET"
  /\ Len(prev) = 2
  /\ HorizonOf(prev, 0) = 2
  /\ HorizonOf(prev, 1) = 1
  /\ CellOf(ItemOf(widgets, last.id)) = <<1, 1>>

\* ---------------------------------------------------------------------- C15
\* the last call removed an item of a packed array of single-span items
RemovedOfSingleSpans ==
  /\ last.type = "REMOVE_WIDGET"
  /\ Has(prev, last.id)
  /\ \A i \in DOMAIN prev : SingleSpan(prev[i])

\* C15: removing one of the N single-span items of a packed array gives the other
\* N - 1 items in the order they had, at the row-major cells 0 .. N - 2: item k
\* (from 0) at row k \div COLUMNS, column k % COLUMNS.
C15_RemoveLeavesNoGap ==
  RemovedOfSingleSpans =>
    /\ IdsOf(widgets) = SelectSeq(IdsOf(prev), LAMBDA id : id # last.id)
    /\ \A k \in DOMAIN widgets :
         CellOf(widgets[k]) = <<(k - 1) \div COLUMNS, (k - 1) % COLUMNS>>

\* four single-span items two rows deep, the one at cell (0,0) removed: the three
\* others are at (0,0), (0,1), (1,0)
C15_Witness ==
  /\ RemovedOfSingleSpans
  /\ Len(prev) = 4
  /\ CellOf(ItemOf(prev, last.id)) = <<0, 0>>
  /\ Len(widgets) = 3
  /\ CellOf(widgets[1]) = <<0, 0>>
  /\ CellOf(widgets[2]) = <<0, 1>>
  /\ CellOf(widgets[3]) = <<1, 0>>

\* ---------------------------------------------------------------------- C16
\* the last call resized an item of the array
ResizeOfItem == last.type = "RESIZE_WIDGET" /\ Has(prev, last.id)

\* three single-span items at (0,0), (0,1), (1,0), the first of them made two
\* columns wide
ResizeCascade ==
  /\ ResizeOfItem
  /\ Len(prev) = 3
  /\ \A i \in DOMAIN prev : SingleSpan(prev[i])
  /\ <<CellOf(prev[1]), CellOf(prev[2]), CellOf(prev[3])>> = <<<<0, 0>>, <<0, 1>>, <<1, 0>>>>
  /\ last.id = prev[1].id
  /\ last.width > COLUMN_WIDTH + 20

\* C16: a resize of the item at index i repacks the whole array: the items before
\* i keep their cells, the resized item has the spans of the new raw width and
\* height, and no two items overlap; with three single-span items at (0,0), (0,1),
\* (1,0) and the first made two columns wide, the item that was at (0,1) is on a
\* lower row.
C16_ResizeRepacks ==
  ResizeOfItem =>
    LET i == IndexOf(prev, last.id)
        n == ItemOf(widgets, last.id)
    IN /\ SameItems
       /\ ValidLayout
       /\ \A k \in 1 .. i - 1 : CellOf(ItemOf(widgets, prev[k].id)) = CellOf(prev[k])
       /\ ColSpanOf(n) = (IF last.width > COLUMN_WIDTH + 20 THEN 2 ELSE 1)
       /\ RowSpanOf(n) = (IF last.height > ROW_HEIGHT + 20 THEN 2 ELSE 1)
       /\ <<n.width, n.height>> =
            <<ColSpanOf(n) * COLUMN_WIDTH + (ColSpanOf(n) - 1) * MARGIN,
              RowSpanOf(n) * ROW_HEIGHT + (RowSpanOf(n) - 1) * MARGIN>>
       /\ ResizeCascade => ItemOf(widgets, prev[2].id).gridRow[1] > 0

\* the cascade: the item that was at (0,1) and the item that was at (1,0) are both
\* under the resized item
C16_Witness ==
  /\ ResizeCascade
  /\ CellOf(ItemOf(widgets, prev[1].id)) = <<0, 0>>
  /\ CellOf(ItemOf(widgets, prev[2].id)) = <<1, 0>>
  /\ CellOf(ItemOf(widgets, prev[3].id)) = <<1, 1>>

\* ---------------------------------------------------------------------- C17
\* C17: a bring-to-front changes only the zIndex of the item with the id, which
\* becomes 999: the order, every item's x, y, width, height, gridRow and gridCol,
\* and the zIndex of every other item are unchanged.
C17_BringToFrontOnlyZIndex ==
  last.type = "BRING_TO_FRONT" =>
    /\ Len(widgets) = Len(prev)
    /\ \A i \in DOMAIN prev :
         Value(widgets[i]) =
           IF prev[i].id = last.id THEN [Value(prev[i]) EXCEPT !.zIndex = 999]
           ELSE Value(prev[i])

\* ---------------------------------------------------------------------- C18
\* the cells an item of the given spans covers when its top-left cell is (r, c)
SpanCells(r, c, colSpan, rowSpan) ==
  {<<r + dr, c + dc>> : dr \in 0 .. rowSpan - 1, dc \in 0 .. colSpan - 1}

\* the cells of the items placed before the i-th item of the input
PlacedBefore(i) == UNION {CellsOf(ItemOf(widgets, prev[k].id)) : k \in 1 .. i - 1}

\* C18: recalculateLayout places every item, in input order, in the first slot
\* available: no position earlier in row-major order is free for its whole span
\* among the items placed before it, so that its cells are those of the first-fit
\* recalculateLayout of layoutUtils.js.
C18_FirstAvailableSlot ==
  last.type = "PACK" =>
    /\ \A i \in DOMAIN prev :
         LET w == ItemOf(widgets, prev[i].id)
         IN \A r \in 0 .. w.gridRow[1], c \in 0 .. COLUMNS - ColSpanOf(w) :
              (r < w.gridRow[1] \/ (r = w.gridRow[1] /\ c < w.gridCol[1]))
                => SpanCells(r, c, ColSpanOf(w), RowSpanOf(w)) \cap PlacedBefore(i) # {}
    /\ \A i \in DOMAIN prev :
         LET w == ItemOf(widgets, prev[i].id)
             j == recalculateLayoutJs(prev)[i]
         IN <<w.x, w.y, w.width, w.height>> = <<j.x, j.y, j.width, j.height>>

\* the same for inputs of single-span items only
C18_FirstAvailableSlotSingleSpan ==
  (\A i \in DOMAIN prev : SingleSpan(prev[i])) => C18_FirstAvailableSlot

\* ---------------------------------------------------------------------- C19
\* the number of the items of an array that have the id
CountOf(ws, id) == Cardinality({i \in DOMAIN ws : ws[i].id = id})

\* C19: recalculateLayout and reorderWidgets neither lose nor duplicate items: the
\* output has the length of the input and every id as many times as the input,
\* and each item keeps its id, data and zIndex.
C19_NoLossNoDuplication ==
  last.type \in {"PACK", "REORDER_WIDGET"} =>
    /\ Len(widgets) = Len(prev)
    /\ \A i \in DOMAIN prev : CountOf(widgets, prev[i].id) = CountOf(prev, prev[i].id)
    /\ \A j \in DOMAIN widgets :
         \E i \in DOMAIN prev :
           <<widgets[j].id, widgets[j].data, widgets[j].zIndex>> =
             <<prev[i].id, prev[i].data, prev[i].zIndex>>

\* a reorder that changed the order of three items of unlike content and zIndex
C19_Witness ==
  /\ last.type = "REORDER_WIDGET"
  /\ ~sameRef
  /\ Len(prev) = 3
  /\ IdsOf(widgets) # IdsOf(prev)
  /\ \E i, j \in DOMAIN prev : prev[i].zIndex # prev[j].zIndex

\* ---------------------------------------------------------------------- C20
\* the call run step by step has returned
Returned == loop.pc = "done"

\* C20: every call terminates: recalculateLayout (its placement loop, and the
\* while loop of layoutUtils.js) and reorderWidgets (its binary search, then its
\* repack) reach their return on every input.
C20_Terminates == <>Returned

\* the step-by-step runs return what the functions return
C20_SameResult ==
  Returned =>
    IF last.type = "PACK_JS" THEN widgets = recalculateLayoutJs(prev)
    ELSE LET r == reorderWidgets(prev, last.id, last.x, last.y)
         IN sameRef = r.same /\ widgets = r.widgets

\* a reorder of three items has returned after a binary search that ended at the
\* last index
C20_Witness ==
  /\ Returned
  /\ last.type = "REORDER_WIDGET"
  /\ ~sameRef
  /\ Len(widgets) = 3
  /\ loop.low = 2
  /\ IdsOf(widgets) # IdsOf(prev)

\* ---------------------------------------------------------------------- C21
\* the maximum of the horizon over the columns [c, c + colSpan)
MaxOver(horizon, c, colSpan) ==
  CHOOSE m \in {horizon[k] : k \in c .. c + colSpan - 1} :
    \A k \in c .. c + colSpan - 1 : horizon[k] <= m

\* C21: recalculateLayout starts with a horizon of 0 in every column and places
\* the items in input order; each item goes to the starting column c, with
\* c + colSpan <= COLUMNS, that minimises the maximum of the horizon over
\* [c, c + colSpan), the smallest such c on a tie, at the row of that minimum;
\* afterwards the horizon of the columns [c, c + colSpan) is row + rowSpan and the
\* horizon of the other columns is unchanged.
C21_SkylinePlacement ==
  [][/\ (loop.pc = "map" /\ loop.i = 1) => \A c \in 0 .. COLUMNS - 1 : loop.horizon[c] = 0
     /\ loop.pc = "commit" =>
          LET w == loop.input[loop.i]
              colSpan == ColSpanOf(w)
              rowSpan == RowSpanOf(w)
              placed == loop'.out[Len(loop'.out)]
              row == placed.gridRow[1]
              col == placed.gridCol[1]
          IN /\ Len(loop'.out) = loop.i
             /\ placed.id = w.id
             /\ 0 <= col /\ col + colSpan <= COLUMNS
             /\ row = MaxOver(loop.horizon, col, colSpan)
             /\ \A c \in 0 .. COLUMNS - colSpan :
                  /\ MaxOver(loop.horizon, c, colSpan) >= row
                  /\ c < col => MaxOver(loop.horizon, c, colSpan) > row
             /\ \A c \in 0 .. COLUMNS - 1 :
                  loop'.horizon[c] = IF col <= c /\ c < col + colSpan
                                     THEN row + rowSpan
                                     ELSE loop.horizon[c]]_vars

\* three items are placed: a one-row item at (0,0), a two-row item at (0,1), and
\* a two-column item below both, at row 2, where the horizon of column 0 was 1
C21_Witness ==
  /\ loop.pc = "map"
  /\ Len(loop.out) = 3
  /\ CellOf(loop.out[1]) = <<0, 0>> /\ SingleSpan(loop.out[1])
  /\ CellOf(loop.out[2]) = <<0, 1>> /\ RowSpanOf(loop.out[2]) = 2
  /\ CellOf(loop.out[3]) = <<2, 0>> /\ ColSpanOf(loop.out[3]) = 2
  /\ loop.horizon = [c \in 0 .. COLUMNS - 1 |-> 3]

\* ---------------------------------------------------------------------- C22
\* the array the last call handed to recalculateLayout, for a pack and for a resize
PackInput ==
  IF last.type = "RESIZE_WIDGET"
  THEN [i \in DOMAIN prev |->
          IF prev[i].id = last.id
          THEN [prev[i] EXCEPT !.width = last.width, !.height = last.height]
          ELSE prev[i]]
  ELSE prev

\* C22: recalculateLayout gives an item colSpan 2 exactly when its width is
\* greater than COLUMN_WIDTH + 20, else 1, and rowSpan 2 exactly when its height
\* is greater than ROW_HEIGHT + 20, else 1; the width it returns is
\* colSpan * COLUMN_WIDTH + (colSpan - 1) * MARGIN and the height
\* rowSpan * ROW_HEIGHT + (rowSpan - 1) * MARGIN, and the span derived from these
\* two is the same span.
C22_SpanAndSnap ==
  last.type \in {"PACK", "RESIZE_WIDGET"} =>
    \A i \in DOMAIN PackInput :
      LET v == PackInput[i]
          w == ItemOf(widgets, v.id)
          colSpan == IF v.width > COLUMN_WIDTH + 20 THEN 2 ELSE 1
          rowSpan == IF v.height > ROW_HEIGHT + 20 THEN 2 ELSE 1
      IN /\ Has(widgets, v.id)
         /\ w.width = colSpan * COLUMN_WIDTH + (colSpan - 1) * MARGIN
         /\ w.height = rowSpan * ROW_HEIGHT + (rowSpan - 1) * MARGIN
         /\ (IF w.width > COLUMN_WIDTH + 20 THEN 2 ELSE 1) = colSpan
         /\ (IF w.height > ROW_HEIGHT + 20 THEN 2 ELSE 1) = rowSpan

\* a resize to a width at the threshold and a height just above it: the item is
\* one column wide and two rows high, and the item after it is not below it in
\* column 1
C22_Witness ==
  /\ last.type = "RESIZE_WIDGET"
  /\ Has(prev, last.id)
  /\ last.width = COLUMN_WIDTH + 20
  /\ last.height = ROW_HEIGHT + 21
  /\ ItemOf(widgets, last.id).width = COLUMN_WIDTH
  /\ ItemOf(widgets, last.id).height = 2 * ROW_HEIGHT + MARGIN
  /\ Len(widgets) = 2
  /\ widgets[1].id = last.id
  /\ CellOf(widgets[2]) = <<0, 1>>

\* ---------------------------------------------------------------------- C23
\* the cached cell of an item is there and agrees with its pixel position
CacheAgrees(w) ==
  /\ HasCell(w)
  /\ w.x = MARGIN + w.gridCol[1] * GRID_STEP_X
  /\ w.y = w.gridRow[1] * GRID_STEP_Y
  /\ Round(w.y, GRID_STEP_Y) = w.gridRow[1]
  /\ Round(w.x - MARGIN, GRID_STEP_X) = w.gridCol[1]

\* C23: every item of the store has a cached cell that agrees with its pixel
\* position, x = MARGIN + gridCol * GRID_STEP_X and y = gridRow * GRID_STEP_Y, so
\* that the cell reorderWidgets would derive from x, y is the cached one: no add,
\* remove, resize, reorder or bring-to-front leaves a stale or missing cache.
C23_CacheAgrees == \A i \in DOMAIN widgets : CacheAgrees(widgets[i])

\* a bring-to-front of the item at cell (1,1), the third of three: the new object
\* it makes carries the cell
C23_Witness ==
  /\ last.type = "BRING_TO_FRONT"
  /\ Len(widgets) = 3
  /\ widgets[3].id = last.id
  /\ widgets[3].fresh
  /\ CellOf(widgets[3]) = <<1, 1>>
  /\ widgets[3].x = MARGIN + GRID_STEP_X
  /\ widgets[3].y = GRID_STEP_Y

\* the same after a call of recalculateLayout, whatever cells the input cached
C23_PackOverwrites == Repacked => C23_CacheAgrees

\* ---------------------------------------------------------------------- C24
\* C24: with COLUMNS = 2 the sort at the end of recalculateLayout changes nothing:
\* the items of the output are in the order of the input, their rows never
\* decrease along it, and of two items in the same row the earlier is the left one.
C24_SortKeepsInputOrder ==
  last.type = "PACK" =>
    /\ IdsOf(widgets) = IdsOf(prev)
    /\ \A i, j \in DOMAIN widgets :
         i < j =>
           /\ widgets[i].gridRow[1] <= widgets[j].gridRow[1]
           /\ widgets[i].gridRow[1] = widgets[j].gridRow[1]
                => widgets[i].gridCol[1] < widgets[j].gridCol[1]

\* a pack of five items on three rows or more, with a two-row item followed by
\* two items that share a row
C24_Witness ==
  /\ last.type = "PACK"
  /\ Len(widgets) = 5
  /\ IdsOf(widgets) = IdsOf(prev)
  /\ \E i \in 1 .. 3 :
       /\ RowSpanOf(widgets[i]) = 2
       /\ widgets[i + 1].gridRow = widgets[i + 2].gridRow
  /\ widgets[5].gridRow[1] >= 2

\* ---------------------------------------------------------------------- C25
\* the ids of an array without the given id, in their order
IdsWithout(ws, id) == SelectSeq(IdsOf(ws), LAMBDA k : k # id)

\* C25: reorderWidgets moves the dragged item only: the other items are in the
\* array it returns in the relative order they had in the array it received.
C25_OthersKeepOrder ==
  last.type = "REORDER_WIDGET" => IdsWithout(widgets, last.id) = IdsWithout(prev, last.id)

\* the first of three items, one of them not single-span, is dropped further down
\* and ends last: the two others are in front of it in the order they had
C25_Witness ==
  /\ ReorderOfItem
  /\ ~sameRef
  /\ Len(prev) = 3
  /\ \E i \in DOMAIN prev : ~SingleSpan(prev[i])
  /\ prev[1].id = last.id
  /\ IdsOf(widgets) = <<prev[2].id, prev[3].id, prev[1].id>>

\* ---------------------------------------------------------------------- C26
\* the last call dragged an item of a packed array of single-span items to a
\* drop point whose cell is another cell than its own, with a sort key in [0, N)
DropAmongSingleSpans ==
  /\ ReorderOfItem
  /\ \A i \in DOMAIN prev : SingleSpan(prev[i])
  /\ CellKey(DropCell) \in 0 .. Len(prev) - 1
  /\ DropCell # CellOf(Dragged)

\* C26: on a packed array of N single-span items, a reorder to a drop point whose
\* cell is another cell, of sort key t in [0, N), returns an array with the
\* dragged item at index t (from 0), at cell (t \div COLUMNS, t % COLUMNS), whether
\* it was dragged up or down.
C26_LandsAtTargetIndex ==
  DropAmongSingleSpans =>
    LET t == CellKey(DropCell)
    IN /\ ~sameRef
       /\ Len(widgets) = Len(prev)
       /\ widgets[t + 1].id = last.id
       /\ CellOf(widgets[t + 1]) = <<t \div COLUMNS, t % COLUMNS>>

\* the first of three single-span items is dragged down to the cell (1,0) of the
\* third and ends at index 2, in that cell
C26_Witness ==
  /\ DropAmongSingleSpans
  /\ Len(prev) = 3
  /\ prev[1].id = last.id
  /\ DropCell = <<1, 0>>
  /\ widgets[3].id = last.id
  /\ CellOf(widgets[3]) = <<1, 0>>

\* the same dragged up: the third item is dropped on the cell (0,0) of the first
C26_WitnessUp ==
  /\ DropAmongSingleSpans
  /\ Len(prev) = 3
  /\ prev[3].id = last.id
  /\ DropCell = <<0, 0>>
  /\ widgets[1].id = last.id

\* ---------------------------------------------------------------------- C27
\* the rectangles of two items have a point in common
RectanglesOverlap(a, b) ==
  /\ a.x < b.x + b.width /\ b.x < a.x + a.width
  /\ a.y < b.y + b.height /\ b.y < a.y + a.height

\* C27: in every state of the store, reached by any sequence of the reducer
\* actions (UPDATE_WIDGET among them), no two widgets overlap, the list is sorted
\* by (y, x), and the sort keys gridRow * COLUMNS + gridCol are strictly
\* increasing along the list.
C27_StoreLayoutInvariants ==
  /\ \A i, j \in DOMAIN widgets : i < j => ~RectanglesOverlap(widgets[i], widgets[j])
  /\ \A i \in 1 .. Len(widgets) - 1 :
       /\ \/ widgets[i].y < widgets[i + 1].y
          \/ widgets[i].y = widgets[i + 1].y /\ widgets[i].x <= widgets[i + 1].x
       /\ WidgetSortKey(widgets[i]) < WidgetSortKey(widgets[i + 1])

\* ---------------------------------------------------------------------- C28
\* the focus is null or on a widget of the list
FocusPresent(focused, ws) == focused = null \/ Has(ws, focused.id)

\* C28: when SET_FOCUSED_WIDGET is only sent for a widget of the list, after every
\* step of the store the focus is null or on a widget of the list: a REMOVE_WIDGET
\* of the focused id clears the focus, and a REMOVE_WIDGET of any other id leaves
\* the focus as it was.
C28_FocusPresent ==
  [][/\ FocusPresent(focusedWidget', widgets')
     /\ last'.type = "REMOVE_WIDGET" =>
          /\ (focusedWidget # null /\ focusedWidget.id = last'.id) => focusedWidget' = null
          /\ (focusedWidget = null \/ focusedWidget.id # last'.id)
               => focusedWidget' = focusedWidget]_vars

\* a widget of the list was removed while another one had the focus, and has it
\* still
C28_Witness ==
  /\ last.type = "REMOVE_WIDGET"
  /\ Has(prev, last.id)
  /\ focusedWidget # null
  /\ focusedWidget.id # last.id
  /\ Has(widgets, focusedWidget.id)

\* the store of the app: outside edit mode only the menu of the focused widget
\* removes, and the focus is null afterwards
C28_WitnessCleared ==
  /\ last.type = "REMOVE_WIDGET"
  /\ ~isEditMode
  /\ Has(prev, last.id)
  /\ Len(widgets) >= 1
  /\ focusedWidget = null


\* ------------------------------------------ one DraggableWidget (DraggableWidget.js)
\* The component of one widget in edit mode: its shared values on the UI thread, the
\* props of its last render, the calls runOnJS has queued for the JS thread and the
\* 150 ms timeouts that are scheduled. The threads interleave freely; the calls of a
\* thread run in the order they were queued.

\* gestures one run follows
MaxGestures == 2

\* the widget whose component is modelled
Mounted == 1

\* where a drag can leave the widget: on its cell, 5 px off, 6 px off, on the other column
DragPoints ==
  {<<MARGIN, 0>>, <<MARGIN + 5, 5>>, <<MARGIN + 6, 0>>, <<MARGIN, 6>>,
   <<MARGIN + GRID_STEP_X, 0>>}

\* where a resize can leave the widget: still one column wide, two columns wide
ResizeSizes ==
  {<<COLUMN_WIDTH + 20, ROW_HEIGHT + 20>>, <<COLUMN_WIDTH + 21, ROW_HEIGHT + 20>>}

\* the props of a render
PropsOf(w) == [x |-> w.x, y |-> w.y, width |-> w.width, height |-> w.height, zIndex |-> w.zIndex]

\* the shared values of the first render
MountView(w) ==
  [mounted |-> TRUE, data |-> PropsOf(w),
   x |-> w.x, y |-> w.y, width |-> w.width, height |-> w.height,
   isDraggingLocal |-> FALSE, isResizingLocal |-> FALSE, isPendingUpdate |-> FALSE,
   dragStartX |-> 0, dragStartY |-> 0, resizeStartWidth |-> 0, resizeStartHeight |-> 0,
   targetX |-> w.x, targetY |-> w.y, targetW |-> w.width, targetH |-> w.height,
   targetZ |-> w.zIndex,
   gesture |-> "none",     \* the gesture in progress: none, drag, finalize, resize
   react |-> FALSE,        \* the position controller has a changed input to react to
   jsQueue |-> << >>,      \* calls queued by runOnJS
   timers |-> << >>,       \* scheduled timeouts, each with the gesture that scheduled it
   gen |-> 0,              \* gestures so far
   holdFor |-> 0,          \* the drag whose drop is not yet answered by data or its timeout
   clearedBy |-> "none",   \* what last turned isPendingUpdate off
   unchanged |-> FALSE]    \* the last reorder or resize returned the props it was given

\* what the position controller watches (lines 93-103)
ControllerInput(v) ==
  <<v.isDraggingLocal, v.isPendingUpdate, v.targetX, v.targetY, v.targetW, v.targetH, v.targetZ>>

\* a write of shared values; the controller reacts when what it watches changed
Write(v, w) == [w EXCEPT !.react = v.react \/ ControllerInput(w) # ControllerInput(v)]

Abs(n) == IF n < 0 THEN -n ELSE n

\* two packed single cells, edit mode on, the component of the first mounted
InitDrag ==
  /\ widgets = Received(recalculateLayout(<<NewWidget(1, "img", 0), NewWidget(2, "img", 0)>>))
  /\ focusedWidget = null
  /\ isEditMode = TRUE
  /\ prev = << >>
  /\ last = IDLE
  /\ sameRef = FALSE
  /\ nextId = 3
  /\ contentHeight = calculateTotalContentHeight(widgets)
  /\ loop = NoLoop
  /\ view = MountView(widgets[findIndex(widgets, Mounted)])


\* a call queued for the JS thread (runOnJS)
JsCall(fn, a, b, gen) == [fn |-> fn, a |-> a, b |-> b, gen |-> gen]

\* dragGesture.onStart (lines 257-280)
DragStart ==
  /\ view.mounted /\ isEditMode
  /\ view.gesture = "none"
  /\ view.gen < MaxGestures
  /\ view' = Write(view,
       [view EXCEPT !.gesture = "drag", !.gen = @ + 1,
                    !.jsQueue = Append(@, JsCall("bringToFront", 0, 0, view.gen + 1)),
                    !.isDraggingLocal = TRUE,
                    !.isPendingUpdate = FALSE,
                    !.dragStartX = view.x, !.dragStartY = view.y,
                    !.resizeStartWidth = view.width, !.resizeStartHeight = view.height,
                    !.holdFor = 0,
                    !.clearedBy = IF view.isPendingUpdate THEN "start" ELSE @])
  /\ UNCHANGED <<widgets, focusedWidget, isEditMode, prev, last, sameRef, nextId,
                 contentHeight, loop>>

\* dragGesture.onUpdate and the reaction that follows the finger (lines 281-293, 121-144)
DragUpdate ==
  /\ view.mounted
  /\ view.gesture = "drag"
  /\ \E p \in DragPoints :
       /\ <<view.x, view.y>> # p
       /\ view' = [view EXCEPT !.x = p[1], !.y = p[2]]
  /\ UNCHANGED <<widgets, focusedWidget, isEditMode, prev, last, sameRef, nextId,
                 contentHeight, loop>>

\* hasMovedSignificantly (lines 300-302)
hasMovedSignificantly(v) == Abs(v.x - v.data.x) > 5 \/ Abs(v.y - v.data.y) > 5

\* isPendingUpdate after the test of line 304
PendingAtFinalize(pending, moved) == IF moved THEN TRUE ELSE pending

\* dragGesture.onFinalize up to its last write (lines 294-311); it also runs for a
\* touch that ended before the pan was recognised
DragFinalize ==
  /\ view.mounted /\ isEditMode
  /\ \/ view.gesture = "drag"
     \/ view.gesture = "none" /\ view.gen < MaxGestures
  /\ LET gen == IF view.gesture = "drag" THEN view.gen ELSE view.gen + 1
         moved == hasMovedSignificantly(view)
     IN view' = Write(view,
          [view EXCEPT !.gesture = "finalize", !.gen = gen,
                       !.isPendingUpdate = PendingAtFinalize(@, moved),
                       !.jsQueue = IF moved
                                   THEN Append(@, JsCall("handleDragEndAction", view.x, view.y, gen))
                                   ELSE @,
                       !.holdFor = IF moved THEN gen ELSE @])
  /\ UNCHANGED <<widgets, focusedWidget, isEditMode, prev, last, sameRef, nextId,
                 contentHeight, loop>>

\* the last write of dragGesture.onFinalize (line 314)
DragFinalizeLast ==
  /\ view.mounted
  /\ view.gesture = "finalize"
  /\ view' = Write(view, [view EXCEPT !.gesture = "none", !.isDraggingLocal = FALSE])
  /\ UNCHANGED <<widgets, focusedWidget, isEditMode, prev, last, sameRef, nextId,
                 contentHeight, loop>>

\* resizeGesture.onStart (lines 320-330)
ResizeStart ==
  /\ view.mounted /\ isEditMode
  /\ view.gesture = "none"
  /\ view.gen < MaxGestures
  /\ view' = Write(view,
       [view EXCEPT !.gesture = "resize", !.gen = @ + 1,
                    !.jsQueue = Append(@, JsCall("bringToFront", 0, 0, view.gen + 1)),
                    !.isResizingLocal = TRUE,
                    !.dragStartX = view.x, !.dragStartY = view.y,
                    !.resizeStartWidth = view.width, !.resizeStartHeight = view.height])
  /\ UNCHANGED <<widgets, focusedWidget, isEditMode, prev, last, sameRef, nextId,
                 contentHeight, loop>>

\* resizeGesture.onUpdate (lines 331-336)
ResizeUpdate ==
  /\ view.mounted
  /\ view.gesture = "resize"
  /\ \E size \in ResizeSizes :
       /\ <<view.width, view.height>> # size
       /\ view' = [view EXCEPT !.width = MathMax(10, size[1]), !.height = MathMax(10, size[2])]
  /\ UNCHANGED <<widgets, focusedWidget, isEditMode, prev, last, sameRef, nextId,
                 contentHeight, loop>>

\* resizeGesture.onEnd (lines 337-345)
ResizeEnd ==
  /\ view.mounted
  /\ view.gesture = "resize"
  /\ view' = Write(view,
       [view EXCEPT !.gesture = "none",
                    !.isResizingLocal = FALSE,
                    !.isPendingUpdate = TRUE,
                    !.jsQueue = Append(@, JsCall("handleResizeEndAction", view.width, view.height, view.gen))])
  /\ UNCHANGED <<widgets, focusedWidget, isEditMode, prev, last, sameRef, nextId,
                 contentHeight, loop>>

\* the position controller (lines 104-117); an animation is taken at its end value
PositionController ==
  /\ view.mounted
  /\ view.react
  /\ view' = IF view.isDraggingLocal \/ view.isPendingUpdate
             THEN [view EXCEPT !.react = FALSE]
             ELSE [view EXCEPT !.react = FALSE,
                               !.x = view.targetX, !.y = view.targetY,
                               !.width = view.targetW, !.height = view.targetH]
  /\ UNCHANGED <<widgets, focusedWidget, isEditMode, prev, last, sameRef, nextId,
                 contentHeight, loop>>

\* the action a queued call dispatches (lines 172, 188-195, 204-211)
DispatchOf(call) ==
  CASE call.fn = "bringToFront" -> Call("BRING_TO_FRONT", Mounted, 0, 0, 0, 0)
    [] call.fn = "handleDragEndAction" -> Call("REORDER_WIDGET", Mounted, call.a, call.b, 0, 0)
    [] call.fn = "handleResizeEndAction" -> Call("RESIZE_WIDGET", Mounted, 0, 0, call.a, call.b)

\* bringToFront on the JS thread (lines 171-173)
bringToFront ==
  /\ view.mounted
  /\ last = IDLE
  /\ view.jsQueue # << >>
  /\ Head(view.jsQueue).fn = "bringToFront"
  /\ widgets' = BringToFrontMap(widgets, Mounted)
  /\ last' = DispatchOf(Head(view.jsQueue))
  /\ prev' = widgets
  /\ sameRef' = FALSE
  /\ view' = [view EXCEPT !.jsQueue = Tail(@)]
  /\ UNCHANGED <<focusedWidget, isEditMode, nextId, contentHeight, loop>>

\* the timeout is never scheduled
TimersUnchanged(timers, gen) == timers

\* setTimeout(..., 150) of lines 184-186 and 200-202
SetTimeout(timers, gen) == Append(timers, gen)

\* handleDragEndAction on the JS thread (lines 181-196)
handleDragEndAction ==
  /\ view.mounted
  /\ last = IDLE
  /\ view.jsQueue # << >>
  /\ Head(view.jsQueue).fn = "handleDragEndAction"
  /\ LET call == Head(view.jsQueue)
         r == reorderWidgets(widgets, Mounted, call.a, call.b)
     IN /\ widgets' = r.widgets
        /\ sameRef' = r.same
        /\ last' = DispatchOf(call)
        /\ view' = [view EXCEPT !.jsQueue = Tail(@),
                                !.timers = SetTimeout(@, call.gen),
                                !.unchanged = r.same]
  /\ prev' = widgets
  /\ UNCHANGED <<focusedWidget, isEditMode, nextId, contentHeight, loop>>

\* handleResizeEndAction on the JS thread (lines 198-212)
handleResizeEndAction ==
  /\ view.mounted
  /\ last = IDLE
  /\ view.jsQueue # << >>
  /\ Head(view.jsQueue).fn = "handleResizeEndAction"
  /\ LET call == Head(view.jsQueue)
         ws == resizeWidgetInList(widgets, Mounted, call.a, call.b)
     IN /\ widgets' = ws
        /\ last' = DispatchOf(call)
        /\ view' = [view EXCEPT !.jsQueue = Tail(@),
                                !.timers = SetTimeout(@, call.gen),
                                !.unchanged =
                                  PropsOf(ws[findIndex(ws, Mounted)]) = view.data]
  /\ prev' = widgets
  /\ sameRef' = FALSE
  /\ UNCHANGED <<focusedWidget, isEditMode, nextId, contentHeight, loop>>

\* the callback of a timeout (lines 185, 201); timeouts of one delay fire in order
Timeout ==
  /\ view.mounted
  /\ view.timers # << >>
  /\ view' = Write(view,
       [view EXCEPT !.timers = Tail(@),
                    !.isPendingUpdate = FALSE,
                    !.holdFor = IF @ = Head(view.timers) THEN 0 ELSE @,
                    !.clearedBy = IF view.isPendingUpdate THEN "timeout" ELSE @])
  /\ UNCHANGED <<widgets, focusedWidget, isEditMode, prev, last, sameRef, nextId,
                 contentHeight, loop>>

\* the data is as it was when the gesture started (lines 80-81)
IsStale(v, data) ==
  /\ Abs(data.x - v.dragStartX) < 1 /\ Abs(data.y - v.dragStartY) < 1
  /\ Abs(data.width - v.resizeStartWidth) < 1 /\ Abs(data.height - v.resizeStartHeight) < 1

\* the data sync effect (lines 70-89)
DataSync(v, data) ==
  Write(v,
    [v EXCEPT !.data = data,
              !.targetX = data.x, !.targetY = data.y,
              !.targetW = data.width, !.targetH = data.height, !.targetZ = data.zIndex,
              !.isPendingUpdate = IF @ /\ ~IsStale(v, data) THEN FALSE ELSE @,
              !.holdFor = 0,
              !.clearedBy = IF v.isPendingUpdate /\ ~IsStale(v, data) THEN "effect" ELSE @])

\* the render that follows a dispatch; the effect runs when data is another object
Commit ==
  /\ view.mounted
  /\ last # IDLE
  /\ LET w == widgets[findIndex(widgets, Mounted)]
     IN view' = IF w.fresh THEN DataSync(view, PropsOf(w)) ELSE view
  /\ widgets' = Received(widgets)
  /\ prev' = << >>
  /\ last' = IDLE
  /\ sameRef' = FALSE
  /\ contentHeight' = calculateTotalContentHeight(widgets)
  /\ UNCHANGED <<focusedWidget, isEditMode, nextId, loop>>

NextDrag ==
  \/ DragStart
  \/ DragUpdate
  \/ DragFinalize
  \/ DragFinalizeLast
  \/ ResizeStart
  \/ ResizeUpdate
  \/ ResizeEnd
  \/ PositionController
  \/ bringToFront
  \/ handleDragEndAction
  \/ handleResizeEndAction
  \/ Timeout
  \/ Commit

\* the JS thread takes the call at the head of its queue: a step of bringToFront,
\* handleDragEndAction or handleResizeEndAction, told by the action it dispatches
RunsQueuedCall ==
  /\ view.mounted
  /\ last = IDLE
  /\ view.jsQueue # << >>
  /\ last' = DispatchOf(Head(view.jsQueue))

\* what runs without the user: the reaction and the last write of a finalize on the UI
\* thread, the queued calls, the renders and the timeouts on the JS thread
Scheduled ==
  \/ DragFinalizeLast
  \/ PositionController
  \/ RunsQueuedCall
  \/ Timeout
  \/ Commit

\* a thread has something to run: the state predicate ENABLED <<Scheduled>>_vars
Busy ==
  /\ view.mounted
  /\ \/ view.gesture = "finalize"
     \/ view.react
     \/ view.timers # << >>
     \/ last # IDLE
     \/ view.jsQueue # << >>

\* the threads do not stop while they have something to run: weak fairness of
\* Scheduled, written with Busy for its enabling condition
FairDrag == []<>~Busy \/ []<><<Scheduled>>_vars

SpecDrag == InitDrag /\ [][NextDrag]_vars /\ FairDrag


\* the calls of handleDragEndAction a finalize step has queued
QueuedDragEnds(v) == {i \in DOMAIN v.jsQueue : v.jsQueue[i].fn = "handleDragEndAction"}

\* a step of dragGesture.onFinalize up to its last write
IsFinalizeStep == view.mounted /\ view.gesture \in {"drag", "none"} /\ view'.gesture = "finalize"

\* C29, the finalize and the dispatch: a finalize of a widget that is more than 5 px from
\* its data sets isPendingUpdate while isDraggingLocal is still as it was and queues
\* handleDragEndAction once, whose run dispatches REORDER_WIDGET once; a finalize within
\* 5 px queues nothing and leaves isPendingUpdate alone.
C29_FinalizeAndDispatch ==
  [][/\ IsFinalizeStep /\ hasMovedSignificantly(view) =>
          /\ view'.isPendingUpdate
          /\ view'.isDraggingLocal = view.isDraggingLocal
          /\ view'.jsQueue = Append(view.jsQueue,
                               JsCall("handleDragEndAction", view.x, view.y, view'.gen))
     /\ IsFinalizeStep /\ ~hasMovedSignificantly(view) =>
          /\ view'.jsQueue = view.jsQueue
          /\ view'.isPendingUpdate = view.isPendingUpdate
     /\ (view.mounted /\ Cardinality(QueuedDragEnds(view')) < Cardinality(QueuedDragEnds(view))) =>
          /\ Cardinality(QueuedDragEnds(view')) = Cardinality(QueuedDragEnds(view)) - 1
          /\ last = IDLE /\ last'.type = "REORDER_WIDGET"]_vars

\* C29, the hold read as lasting only as long as isPendingUpdate is set: while it is
\* set, no step moves x or y.
C29_HeldWhilePending ==
  [][view.mounted /\ view.isPendingUpdate => view'.x = view.x /\ view'.y = view.y]_vars

\* C29: no snap-back at drag end. A finalize more than 5 px from the data sets
\* isPendingUpdate before isDraggingLocal is cleared and dispatches REORDER_WIDGET once,
\* and from that finalize until the data of the widget changes or the timeout that
\* handleDragEndAction scheduled for it fires (or the next drag starts), no step moves
\* x or y; a finalize within 5 px dispatches nothing and does not set isPendingUpdate.
C29_NoSnapBack ==
  [][/\ IsFinalizeStep /\ hasMovedSignificantly(view) =>
          /\ view'.isPendingUpdate
          /\ view'.isDraggingLocal = view.isDraggingLocal
          /\ Cardinality(QueuedDragEnds(view')) = Cardinality(QueuedDragEnds(view)) + 1
     /\ IsFinalizeStep /\ ~hasMovedSignificantly(view) =>
          /\ view'.jsQueue = view.jsQueue
          /\ view'.isPendingUpdate = view.isPendingUpdate
     /\ view.mounted /\ view.holdFor # 0 =>
          /\ view'.x = view.x
          /\ view'.y = view.y]_vars

\* the widget shows what its targets say, or a gesture holds it
AtRest ==
  /\ ~view.isPendingUpdate
  /\ \/ view.isDraggingLocal
     \/ view.isResizingLocal
     \/ <<view.x, view.y, view.width, view.height>> =
          <<view.targetX, view.targetY, view.targetW, view.targetH>>

\* C30: isPendingUpdate never stays set for ever. Whenever it is set, it is cleared
\* later on, by the data sync effect or by a timeout, and the widget then comes to
\* rest on its targets unless a gesture holds it; this includes a reorder or a resize
\* that returned the data it was given.
C30_PendingEnds ==
  /\ (view.mounted /\ view.isPendingUpdate) ~> ~view.isPendingUpdate
  /\ (view.mounted /\ view.isPendingUpdate) ~> AtRest

\* a reorder returned the array it was given, the timeout cleared isPendingUpdate and
\* the widget is back on its target
C30_Witness ==
  /\ view.mounted
  /\ view.unchanged
  /\ view.clearedBy = "timeout"
  /\ view.gesture = "none" /\ view.jsQueue = << >> /\ view.timers = << >>
  /\ last = IDLE
  /\ AtRest /\ ~view.isDraggingLocal /\ ~view.isResizingLocal

\* the data changed and the effect cleared isPendingUpdate before the timeout fired
C30_WitnessEffect ==
  /\ view.mounted
  /\ ~view.unchanged
  /\ view.clearedBy = "effect"
  /\ view.timers # << >>
  /\ ~view.isPendingUpdate

====
